---- MODULE Spec2Model ----
(***************************************************************************)
(* A model of the fidget-toy MIDI Twister program: the Memory Game mode    *)
(* (src/src/modes/simon.ts, SimonMode), the event handler of src/index.ts  *)
(* with its long-press timer, and the mode switch requested by the         *)
(* Mode-Select mode (src/src/modes/game_select.ts).                        *)
(*                                                                         *)
(* Time is modelled by the remaining delay of every pending setTimeout     *)
(* callback.  The event loop fires the pending timer with the least        *)
(* remaining delay (the earliest created among equals); a hardware event   *)
(* arrives at any moment before the next timer is due.                     *)
(***************************************************************************)
EXTENDS Integers, Sequences, FiniteSets, TLC

\* ------------------------------------------------------------------------
\* Bounds of the model
\* ------------------------------------------------------------------------
MaxSeqLen == 2
MaxTimers == 4
MaxEvents == 5
MaxGenLen == 4
MaxPlayEvents == 4
MaxMainEvents == 3

\* ------------------------------------------------------------------------
\* Program constants
\* ------------------------------------------------------------------------
NumControls == 16
MaxLed == 127

Controls == 0 .. (NumControls - 1)

Undefined == -1

IDLE == "IDLE"
DISPLAYING_SEQUENCE == "DISPLAYING_SEQUENCE"
WAITING_FOR_INPUT == "WAITING_FOR_INPUT"
LEVEL_COMPLETE == "LEVEL_COMPLETE"
GAME_OVER == "GAME_OVER"

GameState ==
  {IDLE, DISPLAYING_SEQUENCE, WAITING_FOR_INPUT, LEVEL_COMPLETE, GAME_OVER}

EASY == 0
MEDIUM == 1
HARD == 2
EXPERT == 3

Difficulty == {EASY, MEDIUM, HARD, EXPERT}

\* difficultySettings: the speed multiplier is kept doubled (1, 1.5, 2, 3
\* become 2, 3, 4, 6) so that it stays an integer.
difficultySettings ==
  [d \in Difficulty |->
     CASE d = EASY   -> [speedMultiplier |-> 2, mistakesAllowed |-> 2]
       [] d = MEDIUM -> [speedMultiplier |-> 3, mistakesAllowed |-> 1]
       [] d = HARD   -> [speedMultiplier |-> 4, mistakesAllowed |-> 0]
       [] d = EXPERT -> [speedMultiplier |-> 6, mistakesAllowed |-> 0]]

colorValues == <<127, 64, 32, 96, 16, 48, 80, 112>>

\* state.colorValues[i % state.colorValues.length]
Color(i) == colorValues[(i % Len(colorValues)) + 1]

\* ------------------------------------------------------------------------
\* Small helpers on sequences and numbers
\* ------------------------------------------------------------------------
Min2(a, b) == IF a < b THEN a ELSE b

Max2(a, b) == IF a > b THEN a ELSE b

SeqContains(s, x) == \E i \in 1 .. Len(s) : s[i] = x

RECURSIVE SeqFilterOut(_, _)
\* the elements of s that do not occur in the sequence bad, in order
SeqFilterOut(s, bad) ==
  IF s = <<>> THEN <<>>
  ELSE IF SeqContains(bad, Head(s)) THEN SeqFilterOut(Tail(s), bad)
       ELSE <<Head(s)>> \o SeqFilterOut(Tail(s), bad)

RECURSIVE Dedupe(_)
\* [...new Set(s)]: first occurrences, in insertion order
Dedupe(s) ==
  IF s = <<>> THEN <<>>
  ELSE LET r == Dedupe(SubSeq(s, 1, Len(s) - 1))
           x == s[Len(s)]
       IN IF SeqContains(r, x) THEN r ELSE Append(r, x)

\* array.slice(-n)
SliceLast(s, n) == SubSeq(s, Max2(1, Len(s) - n + 1), Len(s))

\* ------------------------------------------------------------------------
\* LED sink: the LED messages <<control, value>> a handler sends, in order
\* ------------------------------------------------------------------------
NoWrites == <<>>

\* no lower bound: a negative brightness is sent as it is
ClampLedAbove(v) == Min2(MaxLed, v)

\* interface.ts setLed: value and control are clamped to 0..127
ClampLed(v) == Max2(0, Min2(MaxLed, v))

\* a message whose control is undefined is taken to be lost
SetLed(l, control, value) ==
  IF control \in Controls THEN Append(l, <<control, ClampLed(value)>>) ELSE l

\* midiUtils.ts setLed: a knob index out of 0..15 is refused, the value is
\* clamped to 0..127 and rounded (Math.round of an integer is the integer)
utilsSetLed(l, knobIndex, value) ==
  LET clamped == IF value < 0 \/ value > MaxLed
                 THEN Max2(0, Min2(MaxLed, value))
                 ELSE value
  IN IF knobIndex < 0 \/ knobIndex >= NumControls THEN l
     ELSE Append(l, <<knobIndex, clamped>>)

RECURSIVE SetLeds(_, _, _)
\* controls.forEach((c) => setLed(output, c, value))
SetLeds(l, controls, value) ==
  IF controls = <<>> THEN l
  ELSE SetLeds(SetLed(l, Head(controls), value), Tail(controls), value)

simonControlsArray == [i \in 1 .. NumControls |-> i - 1]

ClearLeds(l, controls) == SetLeds(l, controls, 0)

\* ------------------------------------------------------------------------
\* Memory Game: generation of the next step (addStepToSimon)
\* ------------------------------------------------------------------------
\* the options array with the right edge of the grid forgotten
NeighborOptionsNoEdge(lastStep, difficulty) ==
  LET col == lastStep % 4
      hor == (IF col > 0 THEN <<lastStep - 1>> ELSE <<>>) \o <<lastStep + 1>>
      ver == (IF lastStep >= 4 THEN <<lastStep - 4>> ELSE <<>>)
             \o (IF lastStep < 12 THEN <<lastStep + 4>> ELSE <<>>)
  IN hor \o ver

\* the options array, in the order the code pushes its elements
NeighborOptions(lastStep, difficulty) ==
  LET col == lastStep % 4
      hor == (IF col > 0 THEN <<lastStep - 1>> ELSE <<>>)
             \o (IF col < 3 THEN <<lastStep + 1>> ELSE <<>>)
      ver == (IF lastStep >= 4 THEN <<lastStep - 4>> ELSE <<>>)
             \o (IF lastStep < 12 THEN <<lastStep + 4>> ELSE <<>>)
      diag == (IF col > 0 /\ lastStep >= 4 THEN <<lastStep - 5>> ELSE <<>>)
              \o (IF col < 3 /\ lastStep >= 4 THEN <<lastStep - 3>> ELSE <<>>)
              \o (IF col > 0 /\ lastStep < 12 THEN <<lastStep + 3>> ELSE <<>>)
              \o (IF col < 3 /\ lastStep < 12 THEN <<lastStep + 5>> ELSE <<>>)
      wrap == (IF col = 0 THEN <<lastStep + 3>> ELSE <<>>)
              \o (IF col = 3 THEN <<lastStep - 3>> ELSE <<>>)
              \o (IF lastStep < 4 THEN <<lastStep + 12>> ELSE <<>>)
              \o (IF lastStep >= 12 THEN <<lastStep - 12>> ELSE <<>>)
  IN hor \o ver
     \o (IF difficulty \in {HARD, EXPERT} THEN diag ELSE <<>>)
     \o (IF difficulty = EXPERT THEN wrap ELSE <<>>)

RecentWindow == 3

\* validOptions: duplicates removed, the last 3 steps of the sequence excluded
ValidOptions(seq, difficulty) ==
  SeqFilterOut(Dedupe(NeighborOptions(seq[Len(seq)], difficulty)),
               SliceLast(seq, RecentWindow))

\* Math.floor(Math.random() * n), Math.random() being rnd / 16
RandomIndex(rnd, n) == (rnd * n) \div NumControls

\* the step addStepToSimon appends, for the random draw rnd
NewStep(seq, difficulty, rnd) ==
  IF Len(seq) = 0 THEN RandomIndex(rnd, NumControls)
  ELSE LET validOptions == ValidOptions(seq, difficulty)
       IN IF Len(validOptions) > 0
          THEN validOptions[RandomIndex(rnd, Len(validOptions)) + 1]
          ELSE RandomIndex(rnd, NumControls)

\* ------------------------------------------------------------------------
\* State
\* ------------------------------------------------------------------------
VARIABLES
  sequence,        \* state.sequence
  userPosition,    \* state.userPosition
  active,          \* state.active
  state,           \* state.state
  difficulty,      \* state.difficulty
  score,           \* state.score
  highScore,       \* state.highScore
  speedMultiplier, \* state.speedMultiplier (doubled)
  mistakesAllowed, \* state.mistakesAllowed
  mistakesMade,    \* state.mistakesMade
  displayTimer,    \* "null", "pending" (a timer not yet fired) or "stale"
  idleTimer,       \* likewise
  timers,          \* the pending setTimeout callbacks, in creation order
  leds,            \* LED sink: the messages the last handler sent
  events           \* how many hardware events and mode switches happened

\* the module-level state of simon.ts as one record
Cur ==
  [sequence |-> sequence, userPosition |-> userPosition, active |-> active,
   state |-> state, difficulty |-> difficulty, score |-> score,
   highScore |-> highScore, speedMultiplier |-> speedMultiplier,
   mistakesAllowed |-> mistakesAllowed, mistakesMade |-> mistakesMade,
   displayTimer |-> displayTimer, idleTimer |-> idleTimer,
   timers |-> timers, leds |-> leds]

Commit(m) ==
  /\ sequence' = m.sequence
  /\ userPosition' = m.userPosition
  /\ active' = m.active
  /\ state' = m.state
  /\ difficulty' = m.difficulty
  /\ score' = m.score
  /\ highScore' = m.highScore
  /\ speedMultiplier' = m.speedMultiplier
  /\ mistakesAllowed' = m.mistakesAllowed
  /\ mistakesMade' = m.mistakesMade
  /\ displayTimer' = m.displayTimer
  /\ idleTimer' = m.idleTimer
  /\ timers' = m.timers
  /\ leds' = m.leds

\* ------------------------------------------------------------------------
\* Timers (setTimeout / clearTimeout)
\* ------------------------------------------------------------------------
\* A pending callback: k names the closure, r is the remaining delay in ms,
\* ref tells which module variable (displayTimer, idleTimer) holds its
\* handle, a, b, c are the values the closure captured.
Timer(k, r, ref, a, b, c) ==
  [k |-> k, r |-> r, ref |-> ref, a |-> a, b |-> b, c |-> c]

RECURSIVE DropRef(_, _)
\* the handle variable ref is overwritten: its timer stays pending, unnamed
DropRef(ts, ref) ==
  IF ts = <<>> THEN <<>>
  ELSE <<IF Head(ts).ref = ref THEN [Head(ts) EXCEPT !.ref = "none"]
         ELSE Head(ts)>> \o DropRef(Tail(ts), ref)

RECURSIVE CancelRef(_, _)
\* clearTimeout(handle): the timer the handle names, if still pending, goes
CancelRef(ts, ref) ==
  IF ts = <<>> THEN <<>>
  ELSE IF Head(ts).ref = ref THEN CancelRef(Tail(ts), ref)
       ELSE <<Head(ts)>> \o CancelRef(Tail(ts), ref)

\* displayTimer = setTimeout(cb, d)
SetDisplayTimer(m, k, d, a, b, c) ==
  [m EXCEPT !.timers = Append(DropRef(m.timers, "display"),
                              Timer(k, d, "display", a, b, c)),
            !.displayTimer = "pending"]

\* idleTimer = setTimeout(cb, d)
SetIdleTimer(m, k, d, a, b, c) ==
  [m EXCEPT !.timers = Append(DropRef(m.timers, "idle"),
                              Timer(k, d, "idle", a, b, c)),
            !.idleTimer = "pending"]

\* setTimeout(cb, d) whose handle is not kept
SetTimeoutUntracked(m, k, d, a, b, c) ==
  [m EXCEPT !.timers = Append(m.timers, Timer(k, d, "none", a, b, c))]

\* if (displayTimer) clearTimeout(displayTimer)
ClearDisplayTimer(m) ==
  IF m.displayTimer = "null" THEN m
  ELSE [m EXCEPT !.timers = CancelRef(m.timers, "display")]

\* if (idleTimer) clearTimeout(idleTimer)
ClearIdleTimer(m) ==
  IF m.idleTimer = "null" THEN m
  ELSE [m EXCEPT !.timers = CancelRef(m.timers, "idle")]

\* ------------------------------------------------------------------------
\* Memory Game (SimonMode): the methods, as functions of the record m
\* ------------------------------------------------------------------------
showDifficultySelection(m) ==
  LET l0 == ClearLeds(m.leds, simonControlsArray)
      l1 == l0 \o [i \in 1 .. Cardinality(Difficulty) |->
                     <<i - 1, IF i - 1 = m.difficulty THEN 127 ELSE 20>>]
      m1 == ClearIdleTimer([m EXCEPT !.leds = SetLed(l1, 15, 64)])
  IN SetIdleTimer(m1, "pulseStartButton", 3000, 0, 0, 0)

\* the closure pulse of pulseStartButton, with its captured variables
pulse(m, brightness, direction, pulseCount) ==
  IF m.state # IDLE \/ pulseCount >= 3
  THEN [ClearIdleTimer(m) EXCEPT !.idleTimer = "null"]
  ELSE LET b1 == brightness + direction
           b2 == IF b1 >= 127 THEN 127 ELSE IF b1 <= 20 THEN 20 ELSE b1
           d2 == IF b1 >= 127 THEN -5 ELSE IF b1 <= 20 THEN 5 ELSE direction
           p2 == IF b1 < 127 /\ b1 <= 20 THEN pulseCount + 1 ELSE pulseCount
       IN SetIdleTimer([m EXCEPT !.leds = SetLed(m.leds, 15, b2)],
                       "pulse", 30, b2, d2, p2)

pulseStartButton(m) ==
  IF m.state # IDLE THEN m ELSE pulse(m, 20, 5, 0)

\* 500 / state.speedMultiplier and 200 / state.speedMultiplier, in whole ms
baseDisplayTime(speed) == 1000 \div speed

basePauseTime(speed) == 400 \div speed

displaySequence(m) ==
  IF ~m.active THEN m
  ELSE LET m1 == ClearDisplayTimer(m)
           m2 == [m1 EXCEPT !.leds = ClearLeds(m1.leds, simonControlsArray)]
       IN SetDisplayTimer(m2, "showStep", 500, 0, m.speedMultiplier, 0)

\* the closure showStep of displaySequence
showStep(m, stepIndex, speed) ==
  IF ~m.active \/ m.state # DISPLAYING_SEQUENCE THEN m
  ELSE IF stepIndex < Len(m.sequence)
  THEN LET control == m.sequence[stepIndex + 1]
       IN SetDisplayTimer(
            [m EXCEPT !.leds = SetLed(m.leds, control, Color(control))],
            "stepOff", baseDisplayTime(speed), stepIndex + 1, speed, control)
  ELSE [m EXCEPT !.displayTimer = "null", !.state = WAITING_FOR_INPUT]

\* the inner timeout of showStep: the step is cleared, the pause starts
stepOff(m, stepIndex, speed, control) ==
  SetDisplayTimer([m EXCEPT !.leds = SetLed(m.leds, control, 0)],
                  "showStep", basePauseTime(speed), stepIndex, speed, 0)

\* the new step put in front of the sequence
PushStepFront(seq, newStep) == <<newStep>> \o seq

\* state.sequence.push(newStep)
PushStep(seq, newStep) == Append(seq, newStep)

\* the step is added and the high score is left as it is
addStepToSimonUnrecorded(m, rnd) ==
  IF ~m.active THEN m
  ELSE LET newStep == NewStep(m.sequence, m.difficulty, rnd)
           seq == PushStep(m.sequence, newStep)
           m1 == [m EXCEPT !.sequence = seq,
                           !.userPosition = 0,
                           !.state = DISPLAYING_SEQUENCE,
                           !.score = Len(seq)]
       IN displaySequence(m1)

addStepToSimon(m, rnd) ==
  IF ~m.active THEN m
  ELSE LET newStep == NewStep(m.sequence, m.difficulty, rnd)
           seq == PushStep(m.sequence, newStep)
           m1 == [m EXCEPT !.sequence = seq,
                           !.userPosition = 0,
                           !.state = DISPLAYING_SEQUENCE,
                           !.score = Len(seq),
                           !.highScore = Max2(m.highScore, Len(seq))]
       IN displaySequence(m1)

CountdownPattern(count) ==
  CASE count = 3 -> <<0, 1, 2, 3, 7, 11, 12, 13, 14, 15>>
    [] count = 2 -> <<0, 1, 2, 3, 7, 8, 9, 10, 12, 13, 14, 15>>
    [] count = 1 -> <<1, 5, 9, 13>>
    [] OTHER -> <<>>

showCountdown(m, count, rnd) ==
  IF count <= 0 THEN addStepToSimon(m, rnd)
  ELSE LET l1 == SetLeds(ClearLeds(m.leds, simonControlsArray),
                         CountdownPattern(count), 127)
       IN SetDisplayTimer([m EXCEPT !.leds = l1],
                          "showCountdown", 800, count - 1, 0, 0)

startGame(m, rnd) ==
  showCountdown([m EXCEPT !.sequence = <<>>,
                          !.userPosition = 0,
                          !.state = LEVEL_COMPLETE,
                          !.score = 0,
                          !.mistakesMade = 0],
                3, rnd)

spiralOrder == <<5, 6, 9, 10, 1, 2, 4, 7, 8, 11, 13, 14, 0, 3, 12, 15>>

\* the closure showNext of showLevelCompleteAnimation
showNext(m, step) ==
  IF step < Len(spiralOrder)
  THEN SetDisplayTimer(
         [m EXCEPT !.leds = SetLed(m.leds, spiralOrder[step + 1], Color(step))],
         "showNext", 50, step + 1, 0, 0)
  ELSE SetDisplayTimer(m, "levelPause", 300, 0, 0, 0)

\* the 300 ms pause of the animation ends: the callback schedules the next step
levelPause(m) ==
  SetTimeoutUntracked(
    [m EXCEPT !.leds = ClearLeds(m.leds, simonControlsArray),
              !.displayTimer = "null"],
    "addStepToSimon", 500, 0, 0, 0)

showLevelCompleteAnimation(m) ==
  showNext([m EXCEPT !.leds = ClearLeds(m.leds, simonControlsArray)], 0)

\* the closure flashWrong of showErrorAnimation
flashWrong(m, times, expectedControl, wrongControl) ==
  IF times <= 0
  THEN SetTimeoutUntracked(
         [m EXCEPT !.leds = SetLed(m.leds, expectedControl, 127)],
         "errDone", 800, 0, expectedControl, 0)
  ELSE SetTimeoutUntracked(
         [m EXCEPT !.leds = SetLed(m.leds, wrongControl, 127)],
         "errOff", 200, times, expectedControl, wrongControl)

errOff(m, times, expectedControl, wrongControl) ==
  SetTimeoutUntracked(
    [m EXCEPT !.leds = SetLed(m.leds, wrongControl, 0)],
    "flashWrong", 200, times - 1, expectedControl, wrongControl)

\* the correct button was shown: the callback of checkSimonPress runs
errDone(m, expectedControl) ==
  SetTimeoutUntracked(
    [m EXCEPT !.leds = SetLed(m.leds, expectedControl, 0),
              !.state = DISPLAYING_SEQUENCE],
    "displaySequence", 500, 0, 0, 0)

\* state.sequence[state.userPosition]; nan is what the LED message makes of
\* a control that is undefined
ExpectedControl(m, nan) ==
  IF m.userPosition < Len(m.sequence) THEN m.sequence[m.userPosition + 1]
  ELSE nan

showErrorAnimation(m, wrongControl, nan) ==
  flashWrong(m, 2, ExpectedControl(m, nan), wrongControl)

animationOrder ==
  <<(<<0, 1, 2, 3, 12, 13, 14, 15, 4, 7, 8, 11>>), (<<5, 6, 9, 10>>)>>

showFinalScore(m) ==
  SetTimeoutUntracked(
    [m EXCEPT !.leds = ClearLeds(m.leds, simonControlsArray)],
    "showFinalScore", 500, 0, 0, 0)

\* bit i (from the left) of n.toString(2).padStart(8, "0")
BinaryDigit(n, i) == (n \div (2 ^ (7 - i))) % 2

\* the timeout of showFinalScore: score on the top rows, high score below
finalScoreDisplay(m) ==
  LET row == <<0, 1, 2, 3, 4, 5, 6, 7>>
      top == SelectSeq(row, LAMBDA i : BinaryDigit(m.score, i) = 1)
      low == SelectSeq(row, LAMBDA i : BinaryDigit(m.highScore, i) = 1)
  IN [m EXCEPT !.leds =
        SetLeds(m.leds, top, 64)
        \o [j \in 1 .. Len(low) |-> <<low[j] + 8, 16>>]]

RingLeds(l, ringIndex, value) ==
  SetLeds(l, animationOrder[ringIndex + 1], value)

\* fadeOutRing(ringIndex) with its first, synchronous fadeStep
fadeOutRing(m, ringIndex) ==
  IF ringIndex >= Len(animationOrder) THEN showFinalScore(m)
  ELSE SetDisplayTimer([m EXCEPT !.leds = RingLeds(m.leds, ringIndex, 127)],
                       "fadeStep", 50, ringIndex, 117, 0)

\* the closure fadeStep of fadeOutRing
fadeStep(m, ringIndex, brightness) ==
  IF brightness <= 0
  THEN fadeOutRing([m EXCEPT !.leds = RingLeds(m.leds, ringIndex, 0)],
                   ringIndex + 1)
  ELSE SetDisplayTimer(
         [m EXCEPT !.leds = RingLeds(m.leds, ringIndex, brightness)],
         "fadeStep", 50, ringIndex, brightness - 10, 0)

gameOverAnimation(m) == fadeOutRing(m, 0)

\* the allowance taken one too small
MistakesReached(made, allowed) == made >= allowed

\* a wrong press ends the game once the mistakes exceed the allowance
MistakesExceeded(made, allowed) == made > allowed

checkSimonPress(m, control, nan) ==
  IF ~m.active \/ m.state # WAITING_FOR_INPUT \/ m.displayTimer # "null"
  THEN m
  ELSE IF m.userPosition < Len(m.sequence)
          /\ control = m.sequence[m.userPosition + 1]
  THEN LET m1 == SetTimeoutUntracked(
                   [m EXCEPT !.leds = SetLed(m.leds, control, Color(control))],
                   "flashOff", 150, 0, 0, control)
           m2 == [m1 EXCEPT !.userPosition = m.userPosition + 1]
       IN IF m2.userPosition >= Len(m2.sequence)
          THEN showLevelCompleteAnimation([m2 EXCEPT !.state = LEVEL_COMPLETE])
          ELSE m2
  ELSE LET m1 == [m EXCEPT !.mistakesMade = m.mistakesMade + 1]
       IN IF MistakesExceeded(m1.mistakesMade, m1.mistakesAllowed)
          THEN gameOverAnimation([m1 EXCEPT !.state = GAME_OVER])
          ELSE showErrorAnimation(m1, control, nan)

\* the 150 ms timeout of a correct press
flashOff(m, control) ==
  IF m.state # WAITING_FOR_INPUT THEN m
  ELSE [m EXCEPT !.leds = SetLed(m.leds, control, 0)]

handleButtonPress(m, control, rnd, nan) ==
  IF ~m.active \/ control \notin Controls THEN m
  ELSE IF m.state = IDLE THEN startGame(m, rnd)
  ELSE IF m.state = WAITING_FOR_INPUT THEN checkSimonPress(m, control, nan)
  ELSE IF m.state = GAME_OVER \/ m.state = LEVEL_COMPLETE
  THEN showDifficultySelection([m EXCEPT !.state = IDLE])
  ELSE m

\* Math.floor(value / (128 / difficultyLevels.length))
DifficultyIndex(value) == value \div (128 \div Cardinality(Difficulty))

handleKnobTurn(m, control, value, rnd) ==
  IF ~m.active \/ control \notin Controls THEN m
  ELSE IF m.state = IDLE
  THEN IF control = 0
       THEN LET newDifficulty == DifficultyIndex(value)
            IN IF newDifficulty # m.difficulty
               THEN showDifficultySelection(
                      [m EXCEPT
                         !.difficulty = newDifficulty,
                         !.speedMultiplier =
                            difficultySettings[newDifficulty].speedMultiplier,
                         !.mistakesAllowed =
                            difficultySettings[newDifficulty].mistakesAllowed])
               ELSE m
       ELSE IF control = 15 /\ value > 100 THEN startGame(m, rnd)
       ELSE m
  ELSE IF m.state = WAITING_FOR_INPUT
  THEN [m EXCEPT !.leds = SetLed(m.leds, control, value)]
  ELSE m

\* which timers deactivate cancels: those displayTimer and idleTimer name
DeactivateCancels(m) ==
  [ClearIdleTimer(ClearDisplayTimer(m))
   EXCEPT !.displayTimer = "null", !.idleTimer = "null"]

deactivate(m) ==
  [DeactivateCancels(m) EXCEPT
     !.leds = ClearLeds(m.leds, simonControlsArray),
     !.active = FALSE,
     !.state = IDLE]

\* the closure animateStep of showWelcomeAnimation
animateStep(m, step) ==
  IF step < 16
  THEN SetDisplayTimer([m EXCEPT !.leds = SetLed(m.leds, step, Color(step))],
                       "animateStep", 100, step + 1, 0, 0)
  ELSE SetTimeoutUntracked([m EXCEPT !.displayTimer = "null"],
                           "showDifficultySelection", 200, 0, 0, 0)

showWelcomeAnimation(m) ==
  animateStep([m EXCEPT !.leds = ClearLeds(m.leds, simonControlsArray)], 0)

activate(m) ==
  LET m1 == deactivate(m)
      m2 == [m1 EXCEPT
               !.sequence = <<>>,
               !.userPosition = 0,
               !.active = TRUE,
               !.state = IDLE,
               !.difficulty = EASY,
               !.score = 0,
               !.speedMultiplier = difficultySettings[EASY].speedMultiplier,
               !.mistakesAllowed = difficultySettings[EASY].mistakesAllowed,
               !.mistakesMade = 0,
               !.leds = ClearLeds(m1.leds, simonControlsArray)]
  IN showWelcomeAnimation(m2)

\* ------------------------------------------------------------------------
\* The event loop
\* ------------------------------------------------------------------------
\* the callback of timer t runs
RunCallback(m, t, rnd) ==
  CASE t.k = "animateStep" -> animateStep(m, t.a)
    [] t.k = "showDifficultySelection" -> showDifficultySelection(m)
    [] t.k = "pulseStartButton" -> pulseStartButton(m)
    [] t.k = "pulse" -> pulse(m, t.a, t.b, t.c)
    [] t.k = "showCountdown" -> showCountdown(m, t.a, rnd)
    [] t.k = "showStep" -> showStep(m, t.a, t.b)
    [] t.k = "stepOff" -> stepOff(m, t.a, t.b, t.c)
    [] t.k = "flashOff" -> flashOff(m, t.c)
    [] t.k = "showNext" -> showNext(m, t.a)
    [] t.k = "levelPause" -> levelPause(m)
    [] t.k = "addStepToSimon" -> addStepToSimon(m, rnd)
    [] t.k = "errOff" -> errOff(m, t.a, t.b, t.c)
    [] t.k = "flashWrong" -> flashWrong(m, t.a, t.b, t.c)
    [] t.k = "errDone" -> errDone(m, t.b)
    [] t.k = "displaySequence" -> displaySequence(m)
    [] t.k = "fadeStep" -> fadeStep(m, t.a, t.b)
    [] t.k = "showFinalScore" -> finalScoreDisplay(m)
    [] OTHER -> m

\* the least remaining delay among the pending timers
MinRemaining(ts) ==
  CHOOSE r \in {ts[i].r : i \in 1 .. Len(ts)} :
    \A i \in 1 .. Len(ts) : r <= ts[i].r

\* the timer that fires next: least delay, earliest created among equals
NextTimerIndex(ts) ==
  CHOOSE i \in 1 .. Len(ts) :
    /\ ts[i].r = MinRemaining(ts)
    /\ \A j \in 1 .. (i - 1) : ts[j].r # MinRemaining(ts)

RemoveAt(s, i) == SubSeq(s, 1, i - 1) \o SubSeq(s, i + 1, Len(s))

\* d ms pass for every pending timer
Elapse(ts, d) == [i \in 1 .. Len(ts) |-> [ts[i] EXCEPT !.r = ts[i].r - d]]

\* the timer at index i fires: time advances to its deadline, its handle
\* (if a variable still holds it) no longer names a pending timer
TakeTimer(m, i) ==
  LET t == m.timers[i]
  IN [m EXCEPT
        !.timers = RemoveAt(Elapse(m.timers, t.r), i),
        !.displayTimer = IF t.ref = "display" THEN "stale" ELSE m.displayTimer,
        !.idleTimer = IF t.ref = "idle" THEN "stale" ELSE m.idleTimer]

FireTimer(m, rnd) ==
  LET i == NextTimerIndex(m.timers)
  IN RunCallback(TakeTimer(m, i), m.timers[i], rnd)

\* ------------------------------------------------------------------------
\* index.ts: the monolithic handler with its command interpreter and its
\* long-press reset
\* ------------------------------------------------------------------------
VARIABLES
  main,            \* the module-level state of index.ts, as one record
  held             \* per control: the press holding its button down, if any

KNOB_CHANNEL == 0
BUTTON_CHANNEL == 1
COMMAND_TIMEOUT == 1000
LongPressDelay == 2000
SimonStartDelay == 1000

NORMAL == "normal"
MIRROR == "mirror"
CHASE == "chase"
RAINBOW == "rainbow"
PULSE == "pulse"
SIMON == "simon"

\* A pending setTimeout or setInterval callback of index.ts: p is the period
\* of an interval (0 for a timeout), cs the controls array the closure
\* captured, a, b, c its other captured values.
MainTimer(k, r, p, ref, a, b, c, cs) ==
  [k |-> k, r |-> r, p |-> p, ref |-> ref, a |-> a, b |-> b, c |-> c, cs |-> cs]

MainSetTimeout(m, k, d, a, b, c, cs) ==
  [m EXCEPT !.timers = Append(@, MainTimer(k, d, 0, "none", a, b, c, cs))]

\* index.ts setLed: the message is sent and the value stored
mainSetLed(m, control, value) ==
  [m EXCEPT !.leds = Append(@, <<control, value>>),
            !.knobValues[control] = value]

RECURSIVE mainSetLeds(_, _, _)
mainSetLeds(m, controls, value) ==
  IF controls = <<>> THEN m
  ELSE mainSetLeds(mainSetLed(m, Head(controls), value), Tail(controls), value)

\* output.sendMessage without the store
mainSend(m, control, value) == [m EXCEPT !.leds = Append(@, <<control, value>>)]

RECURSIVE mainSendAll(_, _, _)
mainSendAll(m, controls, value) ==
  IF controls = <<>> THEN m
  ELSE mainSendAll(mainSend(m, Head(controls), value), Tail(controls), value)

RECURSIVE CancelMainRefs(_, _)
CancelMainRefs(ts, refs) ==
  IF ts = <<>> THEN <<>>
  ELSE IF Head(ts).ref \in refs THEN CancelMainRefs(Tail(ts), refs)
       ELSE <<Head(ts)>> \o CancelMainRefs(Tail(ts), refs)

stopAnimations(m) ==
  [m EXCEPT !.timers = CancelMainRefs(@, {"animation", "chase"}),
            !.chaseTimer = "null"]

\* specialKnobs.add(control); knobModes.set(control, mode)
SetMode(m, control, mode) ==
  [m EXCEPT !.specialKnobs = IF SeqContains(@, control) THEN @
                             ELSE Append(@, control),
            !.knobModes[control] = mode]

\* knobValues.get(control) || 0
ValueOrZero(m, control) ==
  IF m.knobValues[control] = Undefined THEN 0 ELSE m.knobValues[control]

SeqRemove(s, x) == SeqFilterOut(s, <<x>>)

activateMirrorMode(m, controlA, controlB) ==
  LET m1 == [m EXCEPT !.linkedKnobs =
                        [c \in DOMAIN @ |-> SeqRemove(@[c], controlB)]]
      m2 == SetMode(SetMode(m1, controlA, MIRROR), controlB, MIRROR)
  IN mainSetLed(m2, controlB, MaxLed - ValueOrZero(m2, controlA))

RECURSIVE chaseSetup(_, _)
chaseSetup(m, controls) ==
  IF controls = <<>> THEN m
  ELSE chaseSetup(mainSetLed(SetMode(m, Head(controls), CHASE),
                             Head(controls), 0),
                  Tail(controls))

activateChaseMode(m, controls) ==
  LET m1 == chaseSetup([m EXCEPT !.chaseSequence = controls,
                                 !.chasePosition = 0], controls)
      m2 == [m1 EXCEPT !.timers = CancelMainRefs(@, {"chase"})]
  IN [m2 EXCEPT !.chaseTimer = "set",
                !.timers = Append(@, MainTimer("chaseTick", 150, 150, "chase",
                                               0, 0, 0, <<>>))]

\* the interval callback of activateChaseMode
chaseTick(m) ==
  LET n == Len(m.chaseSequence)
      prevPos == (m.chasePosition - 1 + n) % n
      m1 == mainSetLed(m, m.chaseSequence[prevPos + 1], 0)
      m2 == mainSetLed(m1, m.chaseSequence[m.chasePosition + 1], MaxLed)
  IN [m2 EXCEPT !.chasePosition = (m.chasePosition + 1) % n]

RECURSIVE rainbowSetup(_, _, _)
rainbowSetup(m, controls, index) ==
  IF index >= Len(controls) THEN m
  ELSE rainbowSetup(
         mainSetLed(SetMode(m, controls[index + 1], RAINBOW),
                    controls[index + 1], (index * MaxLed) \div Len(controls)),
         controls, index + 1)

activateRainbowMode(m, controls) == rainbowSetup(m, controls, 0)

activatePulseMode(m, control) ==
  [SetMode(m, control, PULSE) EXCEPT
     !.timers = Append(@, MainTimer("pulseTick", 50, 50, "animation",
                                    control, 0, 1, <<>>))]

\* the interval callback of activatePulseMode: the value it reaches
PulseValue(value, direction) ==
  LET v == value + direction * 5
  IN IF v >= MaxLed THEN MaxLed ELSE IF v <= 0 THEN 0 ELSE v

PulseDirection(value, direction) ==
  LET v == value + direction * 5
  IN IF v >= MaxLed THEN -1 ELSE IF v <= 0 THEN 1 ELSE direction

\* the closure showStep of index.ts addStepToSimon
mainShowStep(m, stepIndex, controls) ==
  LET m1 == mainSetLeds(m, controls, 0)
  IN IF stepIndex < Len(m1.simonSequence)
     THEN LET control == m1.simonSequence[stepIndex + 1]
          IN MainSetTimeout(mainSetLed(m1, control, MaxLed),
                            "mainStepOff", 500, stepIndex + 1, control, 0,
                            controls)
     ELSE m1

\* the inner timeout of that showStep
mainStepOff(m, stepIndex, control, controls) ==
  MainSetTimeout(mainSetLed(m, control, 0),
                 "mainShowStep", 200, stepIndex, 0, 0, controls)

mainAddStepToSimon(m, controls, rnd) ==
  LET randomIndex == RandomIndex(rnd, Len(controls))
  IN mainShowStep([m EXCEPT !.simonSequence = Append(@, controls[randomIndex + 1]),
                            !.simonUserPosition = 0],
                  0, controls)

RECURSIVE simonSetup(_, _)
simonSetup(m, controls) ==
  IF controls = <<>> THEN m
  ELSE simonSetup(mainSetLed(SetMode(m, Head(controls), SIMON),
                             Head(controls), 0),
                  Tail(controls))

startSimonGame(m, controls, rnd) ==
  mainAddStepToSimon([simonSetup(m, controls) EXCEPT !.simonSequence = <<>>,
                                                     !.simonUserPosition = 0,
                                                     !.simonActive = TRUE],
                     controls, rnd)

\* the closure flashAll of index.ts checkSimonPress
flashAll(m, times, controls) ==
  IF times <= 0
  THEN [mainSetLeds(m, controls, 0) EXCEPT !.simonActive = FALSE]
  ELSE MainSetTimeout(mainSetLeds(m, controls, MaxLed),
                      "flashAllOff", 200, times, 0, 0, controls)

flashAllOff(m, times, controls) ==
  MainSetTimeout(mainSetLeds(m, controls, 0),
                 "flashAll", 200, times - 1, 0, 0, controls)

mainCheckSimonPress(m, control, controls) ==
  IF ~m.simonActive THEN m
  ELSE IF m.simonUserPosition < Len(m.simonSequence)
          /\ control = m.simonSequence[m.simonUserPosition + 1]
  THEN LET m1 == MainSetTimeout(mainSetLed(m, control, MaxLed),
                                "mainFlashOff", 200, control, 0, 0, <<>>)
           m2 == [m1 EXCEPT !.simonUserPosition = @ + 1]
       IN IF m2.simonUserPosition >= Len(m2.simonSequence)
          THEN MainSetTimeout(m2, "mainAddStepToSimon", 1000, 0, 0, 0, controls)
          ELSE m2
  ELSE flashAll(m, 3, controls)

\* index.ts processCommand: the state it leaves, and whether it returned true
CommandControls(buffer) ==
  Dedupe([i \in 1 .. Len(buffer) |-> buffer[i].control])

RECURSIVE RecentCommands(_)
\* commandBuffer.filter((cmd) => Date.now() - cmd.time < COMMAND_TIMEOUT)
RecentCommands(buffer) ==
  IF buffer = <<>> THEN <<>>
  ELSE IF Head(buffer).age < COMMAND_TIMEOUT
       THEN <<Head(buffer)>> \o RecentCommands(Tail(buffer))
       ELSE RecentCommands(Tail(buffer))

processCommand(m, control) ==
  LET buffer == RecentCommands(Append(m.commandBuffer,
                                      [control |-> control, age |-> 0]))
      m1 == [m EXCEPT !.commandBuffer = buffer]
      uniqueControls == CommandControls(buffer)
  IN CASE Len(uniqueControls) = 2 ->
            [m |-> activateMirrorMode(m1, uniqueControls[1], uniqueControls[2]),
             handled |-> TRUE]
       [] Len(uniqueControls) = 4 ->
            [m |-> activateChaseMode(m1, uniqueControls), handled |-> TRUE]
       [] Len(uniqueControls) = 3 ->
            [m |-> activatePulseMode(m1, uniqueControls[2]), handled |-> TRUE]
       [] Len(uniqueControls) = 5 ->
            [m |-> activateRainbowMode(m1, uniqueControls), handled |-> TRUE]
       [] OTHER -> [m |-> m1, handled |-> FALSE]

RECURSIVE resetKnobs(_, _)
resetKnobs(m, controls) ==
  IF controls = <<>> THEN m
  ELSE resetKnobs(
         mainSetLed([m EXCEPT !.knobModes[Head(controls)] = NORMAL],
                    Head(controls), 0),
         Tail(controls))

\* index.ts resetAllKnobs; press tells which press armed the timer that
\* called it, and is written to the log of the resets
resetAllKnobs(m, press) ==
  LET m1 == [stopAnimations(m) EXCEPT !.resetLog = Append(@, press),
                                      !.simonActive = FALSE]
  IN [resetKnobs(m1, m1.specialKnobs) EXCEPT !.specialKnobs = <<>>]

\* clearTimeout(longPressTimer) for the timer the press just armed
ClearLongPress(ts, press) ==
  SelectSeq(ts, LAMBDA t : ~(t.k = "resetAllKnobs" /\ t.b = press))

ArmLongPress(m, control, press) ==
  MainSetTimeout(m, "resetAllKnobs", LongPressDelay, control, press, 0, <<>>)

\* the knobs in the mode given, in the order they became special
KnobsInMode(m, mode) ==
  SelectSeq(m.specialKnobs, LAMBDA c : m.knobModes[c] = mode)

RECURSIVE mirrorOthers(_, _, _, _)
mirrorOthers(m, others, control, value) ==
  IF others = <<>> THEN m
  ELSE mirrorOthers(
         IF Head(others) # control
         THEN mainSetLed(m, Head(others), MaxLed - value) ELSE m,
         Tail(others), control, value)

\* the knob linking of the handler: a button press
linkPress(m, control) ==
  IF m.firstKnob = <<>>
  THEN IF <<KNOB_CHANNEL, control>> \in m.seen
       THEN [m EXCEPT !.firstKnob = <<control, ValueOrZero(m, control)>>]
       ELSE m
  ELSE [mainSend([m EXCEPT !.linkedKnobs[m.firstKnob[1]] = Append(@, control)],
                 control, m.firstKnob[2])
          EXCEPT !.firstKnob = <<>>]

\* the knob linking of the handler: a turn
linkTurn(m, control, value) ==
  LET m1 == IF m.firstKnob # <<>> /\ m.firstKnob[1] = control
            THEN [m EXCEPT !.firstKnob = <<control, value>>] ELSE m
  IN mainSendAll(m1, m1.linkedKnobs[control], value)

\* input.on("message"): a control change on channel chan; press numbers the
\* button press it delivers
onMessage(m, chan, control, value, press) ==
  LET m1 == [m EXCEPT !.seen = @ \cup {<<chan, control>>}]
      m2 == IF chan = KNOB_CHANNEL
            THEN [m1 EXCEPT !.knobValues[control] = value] ELSE m1
      special == SeqContains(m2.specialKnobs, control)
      mode == m2.knobModes[control]
  IN IF special /\ mode = MIRROR /\ chan = KNOB_CHANNEL
     THEN mirrorOthers(m2, KnobsInMode(m2, MIRROR), control, value)
     ELSE IF special /\ mode = SIMON /\ chan = BUTTON_CHANNEL /\ value = MaxLed
     THEN mainCheckSimonPress(m2, control, KnobsInMode(m2, SIMON))
     ELSE IF chan = BUTTON_CHANNEL /\ value = MaxLed
     THEN LET cmd == processCommand(ArmLongPress(m2, control, press), control)
          IN IF cmd.handled
             THEN [cmd.m EXCEPT !.timers = ClearLongPress(@, press)]
             ELSE linkPress(cmd.m, control)
     ELSE IF chan = KNOB_CHANNEL
     THEN linkTurn(m2, control, value)
     ELSE m2

\* d ms pass: every pending timer comes closer, every command grows older
MainElapse(m, d) ==
  [m EXCEPT
     !.timers = Elapse(@, d),
     !.commandBuffer =
       [i \in 1 .. Len(@) |->
          [@[i] EXCEPT !.age = Min2(COMMAND_TIMEOUT, @ + d)]]]

\* the callback of timer t runs; an interval is armed again
MainRunCallback(m, t, rnd) ==
  CASE t.k = "startSimonGame" -> startSimonGame(m, t.cs, rnd)
    [] t.k = "mainShowStep" -> mainShowStep(m, t.a, t.cs)
    [] t.k = "mainStepOff" -> mainStepOff(m, t.a, t.b, t.cs)
    [] t.k = "mainFlashOff" -> mainSetLed(m, t.a, 0)
    [] t.k = "mainAddStepToSimon" -> mainAddStepToSimon(m, t.cs, rnd)
    [] t.k = "flashAll" -> flashAll(m, t.a, t.cs)
    [] t.k = "flashAllOff" -> flashAllOff(m, t.a, t.cs)
    [] t.k = "resetAllKnobs" -> resetAllKnobs(m, t.b)
    [] t.k = "chaseTick" ->
         [chaseTick(m) EXCEPT !.timers = Append(@, [t EXCEPT !.r = t.p])]
    [] t.k = "pulseTick" ->
         [mainSetLed(m, t.a, PulseValue(t.b, t.c)) EXCEPT
            !.timers = Append(@, [t EXCEPT !.r = t.p,
                                           !.b = PulseValue(t.b, t.c),
                                           !.c = PulseDirection(t.b, t.c)])]
    [] OTHER -> m

MainFireTimer(m, rnd) ==
  LET i == NextTimerIndex(m.timers)
      t == m.timers[i]
      m1 == MainElapse(m, t.r)
  IN MainRunCallback([m1 EXCEPT !.timers = RemoveAt(@, i)], t, rnd)

\* index.ts once loaded: nothing seen, the Simon game due in one second
MainLoaded ==
  [seen |-> {},
   firstKnob |-> <<>>,
   linkedKnobs |-> [c \in Controls |-> <<>>],
   knobValues |-> [c \in Controls |-> Undefined],
   knobModes |-> [c \in Controls |-> NORMAL],
   specialKnobs |-> <<>>,
   chaseSequence |-> <<>>,
   chasePosition |-> 0,
   chaseTimer |-> "null",
   simonSequence |-> <<>>,
   simonUserPosition |-> 0,
   simonActive |-> FALSE,
   commandBuffer |-> <<>>,
   resetLog |-> <<>>,
   timers |-> <<MainTimer("startSimonGame", SimonStartDelay, 0, "none",
                          0, 0, 0, <<0, 1, 2, 3>>)>>,
   leds |-> NoWrites]

NotHeld == [press |-> 0, age |-> 0]

NoneHeld == [c \in Controls |-> NotHeld]

\* ------------------------------------------------------------------------
\* The mode engine: the active mode, the dispatch of the events and the
\* mode switch protocol, with the Game Selection mode of game_select.ts
\* ------------------------------------------------------------------------
VARIABLES
  engine           \* the engine: active mode, switch in progress, queue, log

\* ------------------------------------------------------------------------
\* Color Mixer (color_mixer.ts, ColorMixerMode) and its easing functions
\* (animations.ts)
\* ------------------------------------------------------------------------
VARIABLES
  mixer            \* the module state of color_mixer.ts, its interval, the
                   \* clock and the LEDs, as one record

COLOR_SELECTOR_KNOB_R == 0
COLOR_SELECTOR_KNOB_G == 1
COLOR_SELECTOR_KNOB_B == 2
ANIM_SELECTOR_KNOB_EASE == 0
ANIM_SELECTOR_KNOB_STRATEGY == 1
ANIM_SELECTOR_KNOB_SPEED == 2
TOGGLE_KNOB == 3
SELECTOR_KNOBS == {0, 1, 2}
CONTROL_KNOBS ==
  {COLOR_SELECTOR_KNOB_R, COLOR_SELECTOR_KNOB_G, COLOR_SELECTOR_KNOB_B,
   TOGGLE_KNOB}
ALL_KNOBS == [i \in 1 .. 16 |-> i - 1]
MAX_LED_VALUE == 127
ANIMATION_INTERVAL == 50
DEFAULT_ANIMATION_DURATION == 2000
MIN_ANIMATION_DURATION == 500
MAX_ANIMATION_DURATION == 10000

\* COLOR_TRANSITION_STRATEGIES, by index
originalToMax == 0
cycleHue == 1
NumStrategies == 2

\* animationFunctions, by index
linear == 0
easeInOutQuad == 1
bounce == 2
pulseEase == 3
sinePulse == 4
sawtooth == 5
triangle == 6
NumAnimationFunctions == 7

\* the average of the components without the shift of the dominant one
rgbToMidiColorNoBias(r, g, b) == (r + g + b) \div 3

\* avg is kept as the sum of the components, in thirds: the shift and the
\* remainder by MAX_LED_VALUE are taken on the thirds, then Math.floor
rgbToMidiColor(r, g, b) ==
  LET sum == r + g + b
      avg == IF r > g /\ r > b THEN (sum + 3 * 0) % (3 * MAX_LED_VALUE)
             ELSE IF g > r /\ g > b THEN (sum + 3 * 42) % (3 * MAX_LED_VALUE)
             ELSE IF b > r /\ b > g THEN (sum + 3 * 85) % (3 * MAX_LED_VALUE)
             ELSE sum
  IN avg \div 3

clamp(value, min, max) == Max2(min, Min2(max, value))

Abs(x) == IF x < 0 THEN -x ELSE x

RECURSIVE Gcd(_, _)
Gcd(a, b) == IF b = 0 THEN a ELSE Gcd(b, a % b)

\* Math.round of the fraction n / d, d > 0
RoundDiv(n, d) == (2 * n + d) \div (2 * d)

\* what Math.round can return for a double computed from a value between
\* lo / d and hi / d: the roundings of the two ends, and at an exact half
\* also the integer below, which a double just short of the half rounds to
RoundChoices(lo, hi, d) ==
  {RoundDiv(lo, d), RoundDiv(hi, d)}
    \cup (IF (2 * lo + d) % (2 * d) = 0 THEN {RoundDiv(lo, d) - 1} ELSE {})

\* fixed point with four decimals, for the cosine of sinePulse; the series
\* below is within SineSlack units of the cosine
FixedOne == 10000
TwoPiFixed == 62832
SineSlack == 3

\* cos(x) for x in [0, pi/2], x and the result in fixed point: the series
\* 1 - x^2/2 (1 - x^2/12 (1 - x^2/30 (1 - x^2/56)))
CosFirstQuarter(x) ==
  LET x2 == (x * x) \div FixedOne
      t4 == FixedOne - x2 \div 56
      t3 == FixedOne - ((x2 * t4) \div FixedOne) \div 30
      t2 == FixedOne - ((x2 * t3) \div FixedOne) \div 12
  IN FixedOne - ((x2 * t2) \div FixedOne) \div 2

\* cos(2 pi a / b) in fixed point, 0 <= a < b, by the symmetries of cos
CosTurn(a, b) ==
  LET u == IF 2 * a <= b THEN a ELSE b - a
  IN IF 4 * u <= b
     THEN CosFirstQuarter((TwoPiFixed * u) \div b)
     ELSE -CosFirstQuarter((TwoPiFixed * (b - 2 * u)) \div (2 * b))

\* animationFunctions[index](t, 0, l) for t = a / b (in lowest terms), as
\* <<n, d, s>>: the fraction n / d, exact when s = 0 and within s / d of the
\* function's value otherwise
Ease(index, a, b) ==
  CASE index = linear -> <<a, b, 0>>
    [] index = easeInOutQuad ->
         IF 2 * a < b THEN <<2 * a * a, b * b, 0>>
         ELSE LET c == 2 * a - b
              IN <<b * b - c * c + 2 * c * b, 2 * b * b, 0>>
    [] index = bounce ->
         IF 11 * a < 4 * b THEN <<121 * a * a, 16 * b * b, 0>>
         ELSE IF 11 * a < 8 * b
         THEN LET c == 11 * a - 6 * b
              IN <<c * c + 12 * b * b, 16 * b * b, 0>>
         ELSE IF 11 * a < 10 * b
         THEN LET c == 11 * a - 9 * b
              IN <<c * c + 15 * b * b, 16 * b * b, 0>>
         ELSE LET c == 22 * a - 21 * b
              IN <<c * c + 63 * b * b, 64 * b * b, 0>>
    [] index = pulseEase ->
         IF ((4 * a) \div b) % 2 = 0 THEN <<1, 1, 0>> ELSE <<0, 1, 0>>
    [] index = sinePulse ->
         <<FixedOne - CosTurn(a, b), 2 * FixedOne, SineSlack>>
    [] index = sawtooth -> <<a, b, 0>>
    [] index = triangle -> <<b - Abs(2 * a - b), b, 0>>

\* hslToMidiValue of the hue that is y / d of MAX_LED_VALUE before the
\* remainder by 360: Math.round, the remainder by MAX_LED_VALUE + 1, clamp.
\* A hue of exactly one turn is 0 or, as a double just short of it, rounds
\* to MAX_LED_VALUE
HueChoices(y, d) ==
  LET x == y % (MAX_LED_VALUE * d)
  IN {clamp(v % (MAX_LED_VALUE + 1), 0, MAX_LED_VALUE) :
        v \in RoundChoices(x, x, d)}
       \cup (IF x = 0 THEN {MAX_LED_VALUE} ELSE {})

\* the values finalValue can take for a color group at eased progress
\* e = <<n, d, s>>: clamp(Math.round(targetColorValue), 0, MAX_LED_VALUE)
TargetColors(strategyIndex, colorKey, e) ==
  LET n == e[1]
      d == e[2]
      s == e[3]
  IN IF strategyIndex = originalToMax
     THEN \* lerp(colorKey, MAX_LED_VALUE, easedProgress)
          LET x == colorKey * d + (MAX_LED_VALUE - colorKey) * n
              w == (MAX_LED_VALUE - colorKey) * s
          IN {clamp(v, 0, MAX_LED_VALUE) : v \in RoundChoices(x - w, x + w, d)}
     ELSE \* midiValueToHSL, the hue cycled by 360 e, hslToMidiValue
          LET y == colorKey * d + MAX_LED_VALUE * n
              w == MAX_LED_VALUE * s
          IN HueChoices(y - w, d) \cup HueChoices(y + w, d)

\* animationFunctions[index] is a function
EaseExists(index) == index \in 0 .. NumAnimationFunctions - 1

\* the values finalValue of animationLoop can take for one animation at the
\* time now
FinalValues(anim, now) ==
  LET elapsedTime == now - anim.startTime
      timeWithinLoop == elapsedTime % anim.duration
      g == Gcd(anim.duration, timeWithinLoop)
  IN TargetColors(anim.strategyIndex, anim.key,
                  Ease(anim.animIndex, timeWithinLoop \div g,
                       anim.duration \div g))

\* A Map in insertion order: a sequence of records with a field key
MapHas(map, k) == \E i \in 1 .. Len(map) : map[i].key = k

MapGet(map, k) == map[CHOOSE i \in 1 .. Len(map) : map[i].key = k]

\* Map.set: a key that is present keeps its place
MapSet(map, entry) ==
  IF MapHas(map, entry.key)
  THEN [i \in 1 .. Len(map) |->
          IF map[i].key = entry.key THEN entry ELSE map[i]]
  ELSE Append(map, entry)

MapDelete(map, k) == SelectSeq(map, LAMBDA e : e.key # k)

\* knobColors.get(knob), Undefined when the knob has no color
KnobColor(m, knob) ==
  IF MapHas(m.knobColors, knob) THEN MapGet(m.knobColors, knob).color
  ELSE Undefined

\* the knobs of a color group
GroupOf(m, colorKey) ==
  {m.knobColors[i].key : i \in {j \in 1 .. Len(m.knobColors) :
                                   m.knobColors[j].color = colorKey}}

\* setLed of interface.ts; shown keeps the last value written to each LED
mixerSetLed(m, control, value) ==
  [m EXCEPT !.leds = SetLed(@, control, value),
            !.shown[control] = ClampLed(value)]

RECURSIVE mixerSetLeds(_, _, _)
mixerSetLeds(m, controls, value) ==
  IF controls = <<>> THEN m
  ELSE mixerSetLeds(mixerSetLed(m, Head(controls), value), Tail(controls),
                    value)

\* clearLeds(output, ALL_KNOBS)
mixerClearLeds(m) == mixerSetLeds(m, ALL_KNOBS, 0)

RECURSIVE WriteGroup(_, _, _, _)
\* knobColors.forEach: setLed(knobIndex, value) for the knobs of colorKey
WriteGroup(m, entries, colorKey, value) ==
  IF entries = <<>> THEN m
  ELSE WriteGroup(IF Head(entries).color = colorKey
                  THEN mixerSetLed(m, Head(entries).key, value) ELSE m,
                  Tail(entries), colorKey, value)

RECURSIVE WriteGroupOffsets(_, _, _, _)
\* every knob of the group gets a value of its own, shifted by its index
WriteGroupOffsets(m, entries, colorKey, value) ==
  IF entries = <<>> THEN m
  ELSE WriteGroupOffsets(IF Head(entries).color = colorKey
                         THEN mixerSetLed(m, Head(entries).key,
                                          value + Head(entries).key)
                         ELSE m,
                         Tail(entries), colorKey, value)

\* the group is shown the value the tick computed, each knob shifted
updateGroupOffsets(m, colorKey, finalValue) ==
  WriteGroupOffsets(m, m.knobColors, colorKey, finalValue)

\* animationLoop: all knobs of the group are set to the same finalValue
updateGroup(m, colorKey, finalValue) ==
  WriteGroup(m, m.knobColors, colorKey, finalValue)

\* only the first knob of the group gets its color back
restoreGroupFirst(m, colorKey) ==
  LET group == SelectSeq(m.knobColors, LAMBDA e : e.color = colorKey)
  IN WriteGroup(m, SubSeq(group, 1, Min2(1, Len(group))), colorKey, colorKey)

\* stopAnimationForColor: the knobs of the group are set to colorKey
restoreGroup(m, colorKey) == WriteGroup(m, m.knobColors, colorKey, colorKey)

getOrCreateColorAnimConfig(m, colorKey) ==
  IF MapHas(m.colorAnimationConfig, colorKey) THEN m
  ELSE [m EXCEPT !.colorAnimationConfig =
          MapSet(@, [key |-> colorKey, easingIndex |-> 0, strategyIndex |-> 0,
                     duration |-> DEFAULT_ANIMATION_DURATION])]

\* the LED of the speed selector: Math.floor(MAX_LED_VALUE * (1 -
\* durationProgress)), the duration being within its two limits
SpeedLed(duration) ==
  (MAX_LED_VALUE * (MAX_ANIMATION_DURATION - duration))
    \div (MAX_ANIMATION_DURATION - MIN_ANIMATION_DURATION)

\* the LED of a color selector: Math.floor(value / (MAX_LED_VALUE / 10))
TenthOf(value) == (10 * value) \div MAX_LED_VALUE

updateSelectorKnobLEDs(m) ==
  IF m.isAnimationConfigModeActive
  THEN LET m1 == getOrCreateColorAnimConfig(m, m.mixedColorValue)
           config == MapGet(m1.colorAnimationConfig, m.mixedColorValue)
           m2 == mixerSetLed(m1, ANIM_SELECTOR_KNOB_EASE,
                   clamp((MAX_LED_VALUE * config.easingIndex)
                           \div NumAnimationFunctions, 0, MAX_LED_VALUE))
           m3 == mixerSetLed(m2, ANIM_SELECTOR_KNOB_STRATEGY,
                   clamp((MAX_LED_VALUE * config.strategyIndex)
                           \div NumStrategies, 0, MAX_LED_VALUE))
       IN mixerSetLed(m3, ANIM_SELECTOR_KNOB_SPEED,
                      clamp(SpeedLed(config.duration), 0, MAX_LED_VALUE))
  ELSE LET m1 == mixerSetLed(m, COLOR_SELECTOR_KNOB_R,
                             4 + TenthOf(m.redValue))
           m2 == mixerSetLed(m1, COLOR_SELECTOR_KNOB_G,
                             36 + TenthOf(m.greenValue))
       IN mixerSetLed(m2, COLOR_SELECTOR_KNOB_B, 70 + TenthOf(m.blueValue))

isKnobAnimated(m, knob) ==
  /\ KnobColor(m, knob) # Undefined
  /\ MapHas(m.activeAnimations, KnobColor(m, knob))

updateToggleKnobLED(m) ==
  IF m.isAnimationConfigModeActive THEN mixerSetLed(m, TOGGLE_KNOB, 120)
  ELSE IF isKnobAnimated(m, TOGGLE_KNOB) THEN m
  ELSE mixerSetLed(m, TOGGLE_KNOB, m.mixedColorValue)

stopAnimationForColor(m, colorKey) ==
  IF ~MapHas(m.activeAnimations, colorKey) THEN m
  ELSE restoreGroup([m EXCEPT !.activeAnimations = MapDelete(@, colorKey)],
                    colorKey)

\* every animation is dropped, whatever the knob
stopEveryAnimation(m, knob) == [m EXCEPT !.activeAnimations = <<>>]

stopAnimationForKnob(m, knob) ==
  IF KnobColor(m, knob) = Undefined THEN m
  ELSE stopAnimationForColor(m, KnobColor(m, knob))

\* clearInterval(animationIntervalId); animationIntervalId = null
ClearAnimationInterval(m) ==
  IF m.animationIntervalId = "null" THEN m
  ELSE [m EXCEPT !.animationIntervalId = "null",
                 !.intervals = Max2(0, @ - 1)]

RECURSIVE UpdateGroups(_, _, _)
\* activeAnimations.forEach of animationLoop; finals[i] is the finalValue
\* computed for the i-th animation; an animation whose animIndex names no
\* easing function is deleted and its group is not written
UpdateGroups(m, anims, finals) ==
  IF anims = <<>> THEN m
  ELSE UpdateGroups(
         IF EaseExists(Head(anims).animIndex)
         THEN updateGroup(m, Head(anims).key, Head(finals))
         ELSE [m EXCEPT !.activeAnimations = MapDelete(@, Head(anims).key)],
         Tail(anims), Tail(finals))

animationLoop(m, finals) ==
  LET hasActiveAnimations == m.activeAnimations # <<>>
      m1 == UpdateGroups(m, m.activeAnimations, finals)
  IN IF ~hasActiveAnimations THEN ClearAnimationInterval(m1) ELSE m1

\* setInterval without the test of animationIntervalId
startAnimationLoopUnguarded(m) ==
  [m EXCEPT !.animationIntervalId = "set", !.intervals = @ + 1]

startAnimationLoop(m) ==
  IF m.animationIntervalId # "null" THEN m
  ELSE [m EXCEPT !.animationIntervalId = "set", !.intervals = @ + 1]

\* config.duration of the speed selector at value
DurationOf(value) ==
  clamp(RoundDiv(MIN_ANIMATION_DURATION * MAX_LED_VALUE
                   + (MAX_ANIMATION_DURATION - MIN_ANIMATION_DURATION) * value,
                 MAX_LED_VALUE),
        MIN_ANIMATION_DURATION, MAX_ANIMATION_DURATION)

\* the entry of key k replaced by f(entry), when there is one
MapUpdate(map, k, f(_)) ==
  [i \in 1 .. Len(map) |-> IF map[i].key = k THEN f(map[i]) ELSE map[i]]

\* the easing selector stores the raw value of the turn
configKnobTurnRaw(m, control, value) ==
  LET m1 == getOrCreateColorAnimConfig(m, m.mixedColorValue)
      key == m.mixedColorValue
      SetEase(c) == [c EXCEPT !.easingIndex = value]
      AnimEase(a) == [a EXCEPT !.animIndex = value]
      SetStrategy(c) == [c EXCEPT !.strategyIndex = value % NumStrategies]
      AnimStrategy(a) == [a EXCEPT !.strategyIndex = value % NumStrategies,
                                   !.startTime = m.now]
      SetDuration(c) == [c EXCEPT !.duration = DurationOf(value)]
      AnimDuration(a) == [a EXCEPT !.duration = DurationOf(value)]
  IN CASE control = ANIM_SELECTOR_KNOB_EASE ->
            updateSelectorKnobLEDs(
              [m1 EXCEPT !.colorAnimationConfig = MapUpdate(@, key, SetEase),
                         !.activeAnimations = MapUpdate(@, key, AnimEase)])
       [] control = ANIM_SELECTOR_KNOB_STRATEGY ->
            updateSelectorKnobLEDs(
              [m1 EXCEPT !.colorAnimationConfig =
                           MapUpdate(@, key, SetStrategy),
                         !.activeAnimations =
                           MapUpdate(@, key, AnimStrategy)])
       [] control = ANIM_SELECTOR_KNOB_SPEED ->
            updateSelectorKnobLEDs(
              [m1 EXCEPT !.colorAnimationConfig =
                           MapUpdate(@, key, SetDuration),
                         !.activeAnimations =
                           MapUpdate(@, key, AnimDuration)])
       [] OTHER -> m1

\* handleKnobTurn while isAnimationConfigModeActive
configKnobTurn(m, control, value) ==
  LET m1 == getOrCreateColorAnimConfig(m, m.mixedColorValue)
      key == m.mixedColorValue
      SetEase(c) == [c EXCEPT !.easingIndex = value % NumAnimationFunctions]
      AnimEase(a) == [a EXCEPT !.animIndex = value % NumAnimationFunctions]
      SetStrategy(c) == [c EXCEPT !.strategyIndex = value % NumStrategies]
      AnimStrategy(a) == [a EXCEPT !.strategyIndex = value % NumStrategies,
                                   !.startTime = m.now]
      SetDuration(c) == [c EXCEPT !.duration = DurationOf(value)]
      AnimDuration(a) == [a EXCEPT !.duration = DurationOf(value)]
  IN CASE control = ANIM_SELECTOR_KNOB_EASE ->
            updateSelectorKnobLEDs(
              [m1 EXCEPT !.colorAnimationConfig = MapUpdate(@, key, SetEase),
                         !.activeAnimations = MapUpdate(@, key, AnimEase)])
       [] control = ANIM_SELECTOR_KNOB_STRATEGY ->
            updateSelectorKnobLEDs(
              [m1 EXCEPT !.colorAnimationConfig =
                           MapUpdate(@, key, SetStrategy),
                         !.activeAnimations =
                           MapUpdate(@, key, AnimStrategy)])
       [] control = ANIM_SELECTOR_KNOB_SPEED ->
            updateSelectorKnobLEDs(
              [m1 EXCEPT !.colorAnimationConfig =
                           MapUpdate(@, key, SetDuration),
                         !.activeAnimations =
                           MapUpdate(@, key, AnimDuration)])
       [] OTHER -> m1

\* the LEDs of the group are written, only the first knob of the group is
\* given the new color
RecolorFirst(m, colorKey, newColor) ==
  LET first == CHOOSE i \in 1 .. Len(m.knobColors) :
                 /\ m.knobColors[i].color = colorKey
                 /\ \A j \in 1 .. i - 1 : m.knobColors[j].color # colorKey
      m1 == WriteGroup(m, m.knobColors, colorKey, newColor)
  IN [m1 EXCEPT !.knobColors[first].color = newColor]

\* the knobs of colorKey are shown newColor and moved to the group newColor
RecolorGroup(m, colorKey, newColor) ==
  LET Recolor(e) == IF e.color = colorKey THEN [e EXCEPT !.color = newColor]
                    ELSE e
      m1 == WriteGroup(m, m.knobColors, colorKey, newColor)
  IN [m1 EXCEPT !.knobColors = [i \in 1 .. Len(@) |-> Recolor(@[i])]]

mixerHandleKnobTurn(m, control, value) ==
  IF m.isAnimationConfigModeActive THEN configKnobTurn(m, control, value)
  ELSE IF control \in SELECTOR_KNOBS
  THEN LET m1 == CASE control = COLOR_SELECTOR_KNOB_R ->
                        [m EXCEPT !.redValue = value]
                   [] control = COLOR_SELECTOR_KNOB_G ->
                        [m EXCEPT !.greenValue = value]
                   [] OTHER -> [m EXCEPT !.blueValue = value]
           m2 == [m1 EXCEPT !.mixedColorValue =
                    rgbToMidiColor(m1.redValue, m1.greenValue, m1.blueValue)]
       IN updateToggleKnobLED(updateSelectorKnobLEDs(m2))
  ELSE IF control \in CONTROL_KNOBS THEN m
  ELSE LET colorKey == KnobColor(m, control)
       IN IF colorKey = Undefined THEN m
          ELSE LET m1 == stopAnimationForColor(m, colorKey)
                   m2 == RecolorGroup(m1, colorKey, value)
               IN [m2 EXCEPT !.activeAnimations = MapDelete(@, colorKey)]

\* the press of a color selector stops the animation of the mixed color in
\* the configuration mode as well
mixerHandleButtonPressStops(m, control) ==
  IF control = TOGGLE_KNOB
  THEN updateToggleKnobLED(updateSelectorKnobLEDs(
         [m EXCEPT !.isAnimationConfigModeActive = ~@]))
  ELSE IF control \in SELECTOR_KNOBS
  THEN IF control = COLOR_SELECTOR_KNOB_R \/ control = COLOR_SELECTOR_KNOB_B
       THEN stopAnimationForColor(m, m.mixedColorValue)
       ELSE m
  ELSE IF m.isAnimationConfigModeActive THEN m
  ELSE IF control \in CONTROL_KNOBS THEN m
  ELSE LET colorToApply == m.mixedColorValue
           m1 == stopAnimationForKnob(m, control)
           m2 == mixerSetLed(m1, control, colorToApply)
           m3 == [m2 EXCEPT !.knobColors =
                    MapSet(@, [key |-> control, color |-> colorToApply])]
           m4 == getOrCreateColorAnimConfig(m3, colorToApply)
           config == MapGet(m4.colorAnimationConfig, colorToApply)
           m5 == [m4 EXCEPT !.activeAnimations =
                    MapSet(@, [key |-> colorToApply,
                               animIndex |-> config.easingIndex,
                               strategyIndex |-> config.strategyIndex,
                               startTime |-> m.now,
                               duration |-> config.duration])]
       IN IF EaseExists(config.easingIndex) THEN startAnimationLoop(m5)
          ELSE m4

mixerHandleButtonPress(m, control) ==
  IF control = TOGGLE_KNOB
  THEN updateToggleKnobLED(updateSelectorKnobLEDs(
         [m EXCEPT !.isAnimationConfigModeActive = ~@]))
  ELSE IF ~m.isAnimationConfigModeActive /\ control \in SELECTOR_KNOBS
  THEN IF control = COLOR_SELECTOR_KNOB_R \/ control = COLOR_SELECTOR_KNOB_B
       THEN stopAnimationForColor(m, m.mixedColorValue)
       ELSE m
  ELSE IF m.isAnimationConfigModeActive THEN m
  ELSE IF control \in CONTROL_KNOBS THEN m
  ELSE LET colorToApply == m.mixedColorValue
           m1 == stopAnimationForKnob(m, control)
           m2 == mixerSetLed(m1, control, colorToApply)
           m3 == [m2 EXCEPT !.knobColors =
                    MapSet(@, [key |-> control, color |-> colorToApply])]
           m4 == getOrCreateColorAnimConfig(m3, colorToApply)
           config == MapGet(m4.colorAnimationConfig, colorToApply)
           m5 == [m4 EXCEPT !.activeAnimations =
                    MapSet(@, [key |-> colorToApply,
                               animIndex |-> config.easingIndex,
                               strategyIndex |-> config.strategyIndex,
                               startTime |-> m.now,
                               duration |-> config.duration])]
       IN IF EaseExists(config.easingIndex) THEN startAnimationLoop(m5)
          ELSE m4

\* handleButtonRelease does nothing
mixerHandleButtonRelease(m, control) == m

\* deactivate without the clearInterval
mixerDeactivateKeepInterval(m) ==
  [mixerClearLeds(m) EXCEPT
     !.redValue = 0, !.greenValue = 0, !.blueValue = 0,
     !.mixedColorValue = 0, !.isAnimationConfigModeActive = FALSE,
     !.colorAnimationConfig = <<>>, !.knobColors = <<>>,
     !.activeAnimations = <<>>]

mixerDeactivate(m) ==
  ClearAnimationInterval(
    [mixerClearLeds(m) EXCEPT
       !.redValue = 0, !.greenValue = 0, !.blueValue = 0,
       !.mixedColorValue = 0, !.isAnimationConfigModeActive = FALSE,
       !.colorAnimationConfig = <<>>, !.knobColors = <<>>,
       !.activeAnimations = <<>>])

mixerActivate(m) ==
  LET m1 == mixerDeactivate(m)
      m2 == [m1 EXCEPT
               !.redValue = 0, !.greenValue = 0, !.blueValue = 0,
               !.mixedColorValue = rgbToMidiColor(0, 0, 0),
               !.isAnimationConfigModeActive = FALSE,
               !.colorAnimationConfig = <<>>, !.knobColors = <<>>,
               !.activeAnimations = <<>>]
  IN updateToggleKnobLED(updateSelectorKnobLEDs(mixerClearLeds(m2)))

\* color_mixer.ts once loaded: no LED was written yet
MixerLoaded ==
  [active |-> FALSE, redValue |-> 0, greenValue |-> 0, blueValue |-> 0,
   mixedColorValue |-> 0, isAnimationConfigModeActive |-> FALSE,
   colorAnimationConfig |-> <<>>, knobColors |-> <<>>,
   activeAnimations |-> <<>>, animationIntervalId |-> "null",
   intervals |-> 0, now |-> 0, leds |-> NoWrites,
   shown |-> [c \in 0 .. 15 |-> Undefined]]

\* ------------------------------------------------------------------------
\* Linking mode (normal_linking.ts, NormalLinkingMode)
\* ------------------------------------------------------------------------
VARIABLES
  linking          \* the module state of normal_linking.ts, its pending
                   \* callbacks and the LED messages, as one record

\* firstKnob === null
NoKnob == [control |-> Undefined, value |-> Undefined]

\* linkedKnobs.get(src), the empty list when src has no entry
Destinations(m, src) ==
  IF MapHas(m.linkedKnobs, src) THEN MapGet(m.linkedKnobs, src).dests
  ELSE <<>>

\* the value is stored, the destinations are not written
updateLinkedKnobsSilent(m, control, value) ==
  IF m.firstKnob.control = control
  THEN [m EXCEPT !.firstKnob.value = value] ELSE m

updateLinkedKnobs(m, control, value) ==
  LET m1 == IF m.firstKnob.control = control
            THEN [m EXCEPT !.firstKnob.value = value] ELSE m
  IN [m1 EXCEPT !.leds = SetLeds(@, Destinations(m, control), value)]

linkingHandleKnobTurn(m, control, value) ==
  LET m1 == [m EXCEPT !.knobValues[control] = value]
      m2 == updateLinkedKnobs(m1, control, value)
  IN [m2 EXCEPT !.leds = SetLed(@, control, value)]

\* setTimeout(() => setLed(output, control, currentValue), 200)
LinkSetTimeout(m, control, currentValue) ==
  [m EXCEPT !.timers = Append(@, [control |-> control,
                                  value |-> currentValue])]

\* the destination is added to the list of the source and left in the lists
\* of the other sources
LinkToKeeping(map, src, control) ==
  LET map1 == IF MapHas(map, src) THEN map
              ELSE MapSet(map, [key |-> src, dests |-> <<>>])
      dests == MapGet(map1, src).dests
      Add(e) == IF e.key = src THEN [e EXCEPT !.dests = Append(@, control)]
                ELSE e
  IN IF SeqContains(dests, control) THEN map1
     ELSE [i \in 1 .. Len(map1) |-> Add(map1[i])]

\* the destination is added to the list of the source and taken out of the
\* lists of the other sources
LinkTo(map, src, control) ==
  LET map1 == IF MapHas(map, src) THEN map
              ELSE MapSet(map, [key |-> src, dests |-> <<>>])
      dests == MapGet(map1, src).dests
      Unlink(e) == IF e.key = src
                   THEN [e EXCEPT !.dests = Append(@, control)]
                   ELSE [e EXCEPT !.dests = SeqRemove(@, control)]
  IN IF SeqContains(dests, control) THEN map1
     ELSE [i \in 1 .. Len(map1) |-> Unlink(map1[i])]

handleLinking(m, control) ==
  LET currentValue == ValueOrZero(m, control)
  IN IF m.firstKnob = NoKnob
     THEN LinkSetTimeout(
            [m EXCEPT !.firstKnob = [control |-> control,
                                     value |-> currentValue],
                      !.leds = SetLed(@, control, 127)],
            control, currentValue)
     ELSE IF m.firstKnob.control = control
     THEN [m EXCEPT !.leds = SetLed(@, control, currentValue),
                    !.firstKnob = NoKnob]
     ELSE LET m1 == [m EXCEPT
                       !.linkedKnobs = LinkTo(@, m.firstKnob.control, control),
                       !.leds = SetLed(@, control, m.firstKnob.value)]
              m2 == LinkSetTimeout(m1, control, currentValue)
          IN [m2 EXCEPT
                !.leds = SetLed(@, m.firstKnob.control, m.firstKnob.value),
                !.firstKnob = NoKnob]

linkingHandleButtonPress(m, control) == handleLinking(m, control)

NoKnobValues == [c \in 0 .. 15 |-> Undefined]

linkingActivate(m) ==
  [m EXCEPT !.firstKnob = NoKnob, !.linkedKnobs = <<>>,
            !.knobValues = NoKnobValues,
            !.leds = ClearLeds(@, ALL_KNOBS)]

linkingDeactivate(m) ==
  [m EXCEPT !.firstKnob = NoKnob, !.linkedKnobs = <<>>,
            !.knobValues = NoKnobValues,
            !.leds = ClearLeds(@, ALL_KNOBS)]

\* a delayed callback runs: setLed(output, control, currentValue)
linkingFlashOff(m) ==
  [m EXCEPT !.timers = Tail(@),
            !.leds = SetLed(@, Head(m.timers).control, Head(m.timers).value)]

\* normal_linking.ts once loaded; fresh is history: the destinations that
\* were neither turned nor pressed since they were linked
LinkingLoaded ==
  [active |-> FALSE, firstKnob |-> NoKnob, linkedKnobs |-> <<>>,
   knobValues |-> NoKnobValues, timers |-> <<>>, leds |-> NoWrites,
   fresh |-> {}]

\* ------------------------------------------------------------------------
\* Timer-driven animation modes: Pulse (pulse.ts), Ripple (ripple.ts),
\* Random (unnamed/part_005) and Wave (rainbow.ts 143-207)
\* ------------------------------------------------------------------------
VARIABLES
  anims            \* the module states of the four modes with their pending
                   \* timers, the mode last activated and the LED messages,
                   \* as one record

\* speeds and delays are counted in 1/127 ms, which makes the speed formulas
\* of the turn handlers exact
SpeedUnit == 127

Ms(n) == n * SpeedUnit

\* clearInterval(handle); handle = null: the handle names the timer created
\* last for as long as it is held
ClearHandle(m, handle) ==
  IF m[handle] = "set"
  THEN [m EXCEPT ![handle] = "null", !.timers = SubSeq(@, 1, Len(@) - 1)]
  ELSE m

\* handle = setInterval(callback, period)
SetHandle(m, handle, period) ==
  [m EXCEPT ![handle] = "set", !.timers = Append(@, period)]

\* ---- pulse.ts
PulseLoaded ==
  [pulseTimer |-> "null", activeControl |-> Undefined, pulseSpeed |-> Ms(50),
   currentValue |-> 0, direction |-> 1, timers |-> <<>>]

pulseDeactivate(a) ==
  LET p == ClearHandle(a.pulse, "pulseTimer")
  IN [a EXCEPT
        !.pulse = [p EXCEPT !.activeControl = Undefined,
                            !.pulseSpeed = Ms(50), !.currentValue = 0,
                            !.direction = 1],
        !.leds = IF p.activeControl # Undefined
                 THEN SetLed(@, p.activeControl, 0) ELSE @]

startPulseInterval(a) ==
  [a EXCEPT !.pulse = SetHandle(ClearHandle(@, "pulseTimer"), "pulseTimer",
                                @.pulseSpeed)]

\* activate without the default: the control stays undefined
pulseActivateAsGiven(a, triggeringControl) ==
  startPulseInterval(
    [pulseDeactivate(a) EXCEPT
       !.pulse = [@ EXCEPT !.activeControl = triggeringControl,
                           !.pulseSpeed = Ms(50), !.currentValue = 0,
                           !.direction = 1]])

\* triggeringControl = Undefined is the call without the argument
pulseActivate(a, triggeringControl) ==
  LET a1 == pulseDeactivate(a)
      control == IF triggeringControl = Undefined THEN 0
                 ELSE triggeringControl
  IN startPulseInterval(
       [a1 EXCEPT !.pulse = [@ EXCEPT !.activeControl = control,
                                      !.pulseSpeed = Ms(50),
                                      !.currentValue = 0, !.direction = 1]])

\* the callback of the interval
pulseStep(a) ==
  LET p == a.pulse
      v == p.currentValue + p.direction * 5
      p1 == IF v >= 127 THEN [p EXCEPT !.currentValue = 127, !.direction = -1]
            ELSE IF v <= 0 THEN [p EXCEPT !.currentValue = 0, !.direction = 1]
            ELSE [p EXCEPT !.currentValue = v]
  IN IF p.activeControl = Undefined THEN a
     ELSE [a EXCEPT !.pulse = p1,
                    !.leds = SetLed(@, p.activeControl, p1.currentValue)]

pulseHandleKnobTurn(a, control, value) ==
  LET newSpeed == Ms(20) + (127 - value) * 180
      a1 == IF Abs(newSpeed - a.pulse.pulseSpeed) > Ms(3)
            THEN startPulseInterval([a EXCEPT !.pulse.pulseSpeed = newSpeed])
            ELSE a
  IN IF control = a.pulse.activeControl THEN [a1 EXCEPT !.handled = TRUE]
     ELSE [a EXCEPT !.handled = FALSE]

pulseHandleButtonPress(a, control) == [a EXCEPT !.handled = FALSE]

\* ---- ripple.ts
RippleLoaded ==
  [activeControls |-> <<>>, animationTimeouts |-> <<>>,
   centerControl |-> Undefined, rippleSpeed |-> Ms(100), timers |-> <<>>]

\* a timeout of ripple.ts: its handle, the delay left, what its callback does
RippleTimer(id, r, kind, control) ==
  [id |-> id, r |-> r, kind |-> kind, control |-> control]

\* a handle no timer of the mode has had
FreshId(m) ==
  LET used == {m.timers[i].id : i \in 1 .. Len(m.timers)}
                \cup {m.animationTimeouts[i] :
                        i \in 1 .. Len(m.animationTimeouts)}
  IN IF used = {} THEN 0
     ELSE 1 + CHOOSE x \in used : \A y \in used : y <= x

\* animationTimeouts.forEach(clearTimeout); animationTimeouts = []
ClearAnimationTimeouts(m) ==
  LET Listed(t) == ~SeqContains(m.animationTimeouts, t.id)
  IN [m EXCEPT !.timers = SelectSeq(@, Listed), !.animationTimeouts = <<>>]

\* the timeouts are dropped from the list and left pending
ForgetAnimationTimeouts(m) == [m EXCEPT !.animationTimeouts = <<>>]

SurroundingControls(c) ==
  LET InGrid(x) == x >= 0 /\ x < 16 /\ x # c
  IN SelectSeq(<<c - 4, c - 1, c + 1, c + 4, c - 5, c - 3, c + 3, c + 5>>,
               InGrid)

triggerRipple(a) ==
  LET c == a.ripple.centerControl
      m == ClearAnimationTimeouts(a.ripple)
      sur == SurroundingControls(c)
      n == Len(sur)
      first == FreshId(m)
      rippleTimeouts ==
        [i \in 1 .. n |->
           RippleTimer(first + i - 1, m.rippleSpeed * i, "ripple", sur[i])]
      centerFadeTimeout ==
        RippleTimer(first + n, m.rippleSpeed * (n + 1) + Ms(150),
                    "centerFade", Undefined)
  IN IF c = Undefined THEN a
     ELSE [a EXCEPT
             !.ripple = [m EXCEPT
                           !.activeControls = <<c>> \o sur,
                           !.timers = @ \o rippleTimeouts
                                        \o <<centerFadeTimeout>>,
                           !.animationTimeouts =
                             [i \in 1 .. (n + 1) |-> first + i - 1]],
             !.leds = SetLed(ClearLeds(@, ALL_KNOBS), c, 127)]

rippleDeactivateWith(a, clear(_)) ==
  LET m == clear(a.ripple)
  IN [a EXCEPT
        !.ripple = [m EXCEPT !.activeControls = <<>>,
                             !.centerControl = Undefined,
                             !.rippleSpeed = Ms(100)],
        !.leds = ClearLeds(@, m.activeControls)]

rippleDeactivateForget(a) == rippleDeactivateWith(a, ForgetAnimationTimeouts)

rippleDeactivate(a) == rippleDeactivateWith(a, ClearAnimationTimeouts)

rippleActivate(a, triggeringControl) ==
  LET a1 == rippleDeactivate(a)
      control == IF triggeringControl = Undefined THEN 0
                 ELSE triggeringControl
  IN triggerRipple([a1 EXCEPT !.ripple.centerControl = control,
                              !.ripple.rippleSpeed = Ms(100)])

\* the timeout at index i fires: the time it had left passes for the others
rippleFire(a, i) ==
  LET t == a.ripple.timers[i]
      m == [a.ripple EXCEPT !.timers = Elapse(RemoveAt(@, i), t.r)]
      fadeTimeout == RippleTimer(FreshId(a.ripple), Ms(150), "fade", t.control)
  IN CASE t.kind = "ripple" ->
            [a EXCEPT
               !.ripple = [m EXCEPT
                             !.timers = Append(@, fadeTimeout),
                             !.animationTimeouts = Append(@, fadeTimeout.id)],
               !.leds = SetLed(@, t.control, 127)]
       [] t.kind = "fade" ->
            [a EXCEPT !.ripple = m, !.leds = SetLed(@, t.control, 0)]
       [] t.kind = "centerFade" ->
            [a EXCEPT !.ripple = m,
                      !.leds = IF m.centerControl # Undefined
                               THEN SetLed(@, m.centerControl, 0) ELSE @]

rippleHandleKnobTurn(a, control, value) ==
  LET newSpeed == Ms(30) + value * 270
      a1 == IF Abs(newSpeed - a.ripple.rippleSpeed) > Ms(5)
            THEN [a EXCEPT !.ripple.rippleSpeed = newSpeed]
            ELSE a
  IN IF control = a.ripple.centerControl THEN [a1 EXCEPT !.handled = TRUE]
     ELSE [a EXCEPT !.handled = FALSE]

rippleHandleButtonPress(a, control) ==
  IF control = a.ripple.centerControl
  THEN [triggerRipple(a) EXCEPT !.handled = TRUE]
  ELSE [a EXCEPT !.handled = FALSE]

\* ---- unnamed/part_005: RandomMode
RandomLoaded ==
  [randomTimer |-> "null", randomSpeed |-> Ms(200), isFrozen |-> FALSE,
   timers |-> <<>>]

RECURSIVE WriteFrame(_, _, _)
\* ALL_KNOBS.forEach((control) => setLed(output, control, values[control]))
WriteFrame(l, values, control) ==
  IF control > Len(values) THEN l
  ELSE WriteFrame(SetLed(l, control - 1, values[control]), values, control + 1)

randomDeactivate(a) ==
  [a EXCEPT
     !.random = [ClearHandle(@, "randomTimer") EXCEPT
                   !.randomSpeed = Ms(200), !.isFrozen = FALSE],
     !.leds = ClearLeds(@, ALL_KNOBS)]

startRandomInterval(a) ==
  [a EXCEPT !.random = SetHandle(ClearHandle(@, "randomTimer"),
                                 "randomTimer", @.randomSpeed)]

randomActivate(a) ==
  startRandomInterval(
    [randomDeactivate(a) EXCEPT !.random.randomSpeed = Ms(200),
                                !.random.isFrozen = FALSE])

\* the callback of the interval; values are the sixteen results of
\* randomValue()
randomStep(a, values) ==
  IF a.random.isFrozen THEN a
  ELSE [a EXCEPT !.leds = WriteFrame(@, values, 1)]

randomHandleKnobTurn(a, control, value) ==
  LET newSpeed == Ms(50) + (127 - value) * 950
      a1 == [a EXCEPT !.random.randomSpeed = newSpeed]
      a2 == IF ~a.random.isFrozen THEN startRandomInterval(a1) ELSE a1
  IN [(IF Abs(newSpeed - a.random.randomSpeed) > Ms(10) THEN a2 ELSE a)
        EXCEPT !.handled = TRUE]

randomHandleButtonPress(a, control) ==
  LET a1 == [a EXCEPT !.random.isFrozen = ~@, !.handled = TRUE]
  IN IF ~a1.random.isFrozen THEN startRandomInterval(a1) ELSE a1

\* ---- unnamed/part_002: FibonacciMode
NumFib == 20

RECURSIVE Fib(_)
\* fib[i] of calculateFibonacci
Fib(i) == IF i < 2 THEN i ELSE Fib(i - 1) + Fib(i - 2)

\* normalizedFib: Math.floor((n / max) * 127), max being the last number
normalizedFib ==
  [i \in 1 .. NumFib |-> (Fib(i - 1) * 127) \div Fib(NumFib - 1)]

FibLoaded ==
  [fibTimer |-> "null", fibPosition |-> 0, fibSpeed |-> Ms(300),
   timers |-> <<>>]

fibDeactivate(a) ==
  [a EXCEPT
     !.fibonacci = [ClearHandle(@, "fibTimer") EXCEPT
                      !.fibPosition = 0, !.fibSpeed = Ms(300)],
     !.leds = ClearLeds(@, ALL_KNOBS)]

\* the interval is created and the one before it is left running
startFibIntervalKeeping(a) ==
  [a EXCEPT !.fibonacci = SetHandle(@, "fibTimer", @.fibSpeed)]

startFibInterval(a) ==
  [a EXCEPT !.fibonacci = SetHandle(ClearHandle(@, "fibTimer"), "fibTimer",
                                    @.fibSpeed)]

fibActivate(a) ==
  startFibInterval(
    [fibDeactivate(a) EXCEPT !.fibonacci.fibPosition = 0,
                             !.fibonacci.fibSpeed = Ms(300)])

\* the callback of the interval
fibStep(a) ==
  LET values == [i \in 1 .. 16 |->
                   normalizedFib[((a.fibonacci.fibPosition + i - 1) % NumFib)
                                   + 1]]
  IN [a EXCEPT !.leds = WriteFrame(@, values, 1),
               !.fibonacci.fibPosition = (@ + 1) % NumFib]

fibHandleKnobTurn(a, control, value) ==
  LET newSpeed == Ms(50) + (127 - value) * 950
      a1 == startFibInterval([a EXCEPT !.fibonacci.fibSpeed = newSpeed])
  IN [(IF Abs(newSpeed - a.fibonacci.fibSpeed) > Ms(10) THEN a1 ELSE a)
        EXCEPT !.handled = TRUE]

fibHandleButtonPress(a, control) == [a EXCEPT !.handled = FALSE]

\* ---- rainbow.ts: WaveMode
\* the phase is counted in 1/12700 rad, which makes the speed formula exact:
\* it is phase / PhaseUnit - wraps * 2 pi
PhaseUnit == 12700

\* 2 pi in thousandths of the unit of the phase
TwoPiPhase == 79796453

WaveLoaded ==
  [waveTimer |-> "null", phase |-> 0, wraps |-> 0, waveSpeed |-> 1270,
   waveDirection |-> 1, timers |-> <<>>]

waveDeactivate(a) ==
  [a EXCEPT
     !.wave = [ClearHandle(@, "waveTimer") EXCEPT
                 !.waveSpeed = 1270, !.phase = 0, !.wraps = 0,
                 !.waveDirection = 1],
     !.leds = ClearLeds(@, ALL_KNOBS)]

\* activate without its call of deactivate
waveActivateOver(a) ==
  [a EXCEPT !.wave = SetHandle([@ EXCEPT !.phase = 0, !.wraps = 0,
                                         !.waveSpeed = 1270,
                                         !.waveDirection = 1],
                               "waveTimer", Ms(50))]

waveActivate(a) == waveActivateOver(waveDeactivate(a))

\* the series of CosTurn and the fixed-point angle are within WaveSlack
\* ten-thousandths of 63.5 + 63.5 sin(angle)
WaveSlack == 400

\* Math.floor(63.5 + 63.5 * Math.sin(phase + adjustedIndex * 0.5)): the
\* values the floor can take
WaveValues(m, adjustedIndex) ==
  LET angle == ((m.phase + (PhaseUnit \div 2) * adjustedIndex) * 100)
                 \div 127
      turn == (angle - TwoPiFixed \div 4) % TwoPiFixed
      x == (127 * (FixedOne + CosTurn(turn, TwoPiFixed))) \div 2
  IN {Max2(0, (x - WaveSlack) \div FixedOne),
      Min2(127, (x + WaveSlack) \div FixedOne)}

\* the sets of values the callback can write, knob by knob
WaveFrames(m) ==
  [i \in 1 .. 16 |->
     WaveValues(m, IF m.waveDirection = 1 THEN i - 1 ELSE 16 - i)]

\* the wraps the two corrections of the callback can leave for the phase p:
\* if (phase > Math.PI * 2) phase -= Math.PI * 2, then if (phase < 0)
\* phase += Math.PI * 2. A phase that is a whole number of turns is, as a
\* double, just above or just below it
WaveWraps(p, wraps) ==
  LET Up(w) == IF p * 1000 > TwoPiPhase * (w + 1) THEN {w + 1}
               ELSE IF p * 1000 = TwoPiPhase * (w + 1) THEN {w, w + 1}
               ELSE {w}
      Down(w) == IF p * 1000 < TwoPiPhase * w THEN {w - 1}
                 ELSE IF p * 1000 = TwoPiPhase * w THEN {w, w - 1}
                 ELSE {w}
  IN UNION {Down(w) : w \in Up(wraps)}

\* the phase after the callback
WavePhase(m) == m.phase + m.waveSpeed * m.waveDirection

\* the callback of the interval, for the values and the wraps it computes
waveStep(a, values, wraps) ==
  [a EXCEPT !.wave = [@ EXCEPT !.phase = WavePhase(a.wave), !.wraps = wraps],
            !.leds = WriteFrame(@, values, 1)]

waveHandleKnobTurn(a, control, value) ==
  LET newSpeed == 127 + 49 * value
  IN [a EXCEPT !.wave.waveSpeed = IF Abs(newSpeed - @) > 127 THEN newSpeed
                                  ELSE @,
               !.handled = TRUE]

waveHandleButtonPress(a, control) ==
  [a EXCEPT !.wave.waveDirection = -@, !.handled = TRUE]

\* ---- the four modes as the engine calls them
RIPPLE == "ripple"
RANDOM == "random"
WAVE == "wave"
FIBONACCI == "fibonacci"

AnimModes == {PULSE, RIPPLE, RANDOM, WAVE}

animActivate(a, name, triggeringControl) ==
  CASE name = PULSE -> pulseActivate(a, triggeringControl)
    [] name = RIPPLE -> rippleActivate(a, triggeringControl)
    [] name = RANDOM -> randomActivate(a)
    [] name = WAVE -> waveActivate(a)
    [] name = FIBONACCI -> fibActivate(a)

animDeactivate(a, name) ==
  CASE name = PULSE -> pulseDeactivate(a)
    [] name = RIPPLE -> rippleDeactivate(a)
    [] name = RANDOM -> randomDeactivate(a)
    [] name = WAVE -> waveDeactivate(a)
    [] name = FIBONACCI -> fibDeactivate(a)

animHandleKnobTurn(a, name, control, value) ==
  CASE name = PULSE -> pulseHandleKnobTurn(a, control, value)
    [] name = RIPPLE -> rippleHandleKnobTurn(a, control, value)
    [] name = RANDOM -> randomHandleKnobTurn(a, control, value)
    [] name = WAVE -> waveHandleKnobTurn(a, control, value)
    [] name = FIBONACCI -> fibHandleKnobTurn(a, control, value)

animHandleButtonPress(a, name, control) ==
  CASE name = PULSE -> pulseHandleButtonPress(a, control)
    [] name = RIPPLE -> rippleHandleButtonPress(a, control)
    [] name = RANDOM -> randomHandleButtonPress(a, control)
    [] name = WAVE -> waveHandleButtonPress(a, control)
    [] name = FIBONACCI -> fibHandleButtonPress(a, control)

\* the modules once loaded; no mode is active
AnimsLoaded ==
  [active |-> "none", pulse |-> PulseLoaded, ripple |-> RippleLoaded,
   random |-> RandomLoaded, wave |-> WaveLoaded, fibonacci |-> FibLoaded,
   handled |-> FALSE, fired |-> 0, leds |-> NoWrites]


\* ------------------------------------------------------------------------
\* Photo-upload mode (game_select.ts 100-124, SlackMode) and the hook it
\* calls (unnamed/part_008, setProfilePhoto)
\* ------------------------------------------------------------------------
VARIABLES
  slack            \* the presses of the mode with what their calls of the
                   \* hook have done so far, the promises rejected with no
                   \* handler, and the LED messages, as one record

\* interface.ts Colors, those the hook uses
Colors == [GREEN |-> 64, YELLOW |-> 96, PINK |-> 120, RED |-> 127]

\* what a call of the hook meets: whether SLACK_TOKEN is set, whether the
\* image of the knob exists, whether reading it throws, and what the upload
\* does (the response is ok, is not ok, or fetch throws)
Environments ==
  [token : BOOLEAN, image : BOOLEAN, readable : BOOLEAN,
   upload : {"ok", "refused", "throws"}]

\* the upload succeeds
Succeeds(env) ==
  env.token /\ env.image /\ env.readable /\ env.upload = "ok"

\* the call of the hook for press number p writes a color to its knob
slackSetLed(m, p, color) ==
  [m EXCEPT !.presses[p].writes = Append(@, color),
            !.leds = SetLed(@, m.presses[p].knob, color)]

\* setProfilePhoto up to its await: the assertion on the token, the check of
\* the image, reading it, the call of fetch. A failed assertion rejects the
\* promise the async function returned
setProfilePhoto(m, p) ==
  LET env == m.presses[p].env
      done == [m EXCEPT !.presses[p].pending = FALSE]
  IN IF ~env.token THEN [done EXCEPT !.rejected = @ + 1]
     ELSE IF ~env.image THEN slackSetLed(done, p, Colors.YELLOW)
     ELSE IF ~env.readable THEN slackSetLed(done, p, Colors.RED)
     ELSE m

\* setProfilePhoto after its await: fetch has settled
uploadSettles(m, p) ==
  LET env == m.presses[p].env
      done == [m EXCEPT !.presses[p].pending = FALSE]
  IN CASE env.upload = "ok" -> slackSetLed(done, p, Colors.GREEN)
       [] env.upload = "refused" -> slackSetLed(done, p, Colors.PINK)
       [] env.upload = "throws" -> slackSetLed(done, p, Colors.RED)

\* SlackMode.handleButtonPress: the hook is called and its promise dropped
slackHandleButtonPress(m, control, env) ==
  LET p == Len(m.presses) + 1
      m1 == [m EXCEPT
               !.presses = Append(@, [knob |-> control, env |-> env,
                                      pending |-> TRUE, writes |-> <<>>]),
               !.handled = TRUE]
  IN setProfilePhoto(m1, p)

\* SlackMode.handleKnobTurn
slackHandleKnobTurn(m, control, value) == [m EXCEPT !.handled = TRUE]

\* the mode once loaded
SlackLoaded ==
  [presses |-> <<>>, rejected |-> 0, handled |-> FALSE, leds |-> NoWrites]


\* ------------------------------------------------------------------------
\* binary.ts: BinaryMode, the binary counter, puzzle and memory games
\* ------------------------------------------------------------------------
VARIABLES
  binary           \* the module-level state of binary.ts, as one record

SETUP == "SETUP"
PLAYING == "PLAYING"

BINARY_COUNTER == "Binary Counter"
BINARY_PUZZLE == "Binary Puzzle"
BINARY_MEMORY == "Binary Memory"

\* Object.values(BinaryGameMode)
gameModes == <<BINARY_COUNTER, BINARY_PUZZLE, BINARY_MEMORY>>

DEFAULT_INCREMENT_SPEED == 1000
MAX_BINARY_VALUE == 255
BINARY_KNOBS == [i \in 1 .. 8 |-> i - 1]
MODE_SELECTION_KNOBS == <<12, 13, 14>>
SPEED_CONTROL_KNOB == 15
START_BUTTON == 11

BinaryKnobs == {BINARY_KNOBS[i] : i \in 1 .. Len(BINARY_KNOBS)}
ModeSelectionKnobs ==
  {MODE_SELECTION_KNOBS[i] : i \in 1 .. Len(MODE_SELECTION_KNOBS)}

\* MODE_SELECTION_KNOBS.indexOf(control), counted from 1
ModeIndex(control) ==
  CHOOSE i \in 1 .. Len(MODE_SELECTION_KNOBS) :
    MODE_SELECTION_KNOBS[i] = control

\* no target was generated yet
NoTarget == [level |-> Undefined, score |-> Undefined]

\* the module after loading; userBits is indexed by the knob. The field
\* lastUpdateTime is written and never read, it is left out. atTarget is
\* history: the level and the score when the last puzzle target was
\* generated. active (the engine has the mode active) and fired (the
\* timers that fired so far) belong to the run, not to the module.
BinaryLoaded ==
  [mode |-> BINARY_COUNTER, gameState |-> SETUP, counter |-> 0,
   targetNumber |-> 0, userBits |-> [k \in BinaryKnobs |-> FALSE],
   score |-> 0, highScore |-> 0, timeLimit |-> 10000, level |-> 1,
   lives |-> 3, autoIncrement |-> TRUE,
   incrementSpeed |-> DEFAULT_INCREMENT_SPEED,
   displayTimer |-> "null", gameTimer |-> "null", incrementTimer |-> "null",
   timers |-> <<>>, atTarget |-> NoTarget, active |-> FALSE, fired |-> 0,
   leds |-> NoWrites]

RECURSIVE Pow2(_)
Pow2(n) == IF n = 0 THEN 1 ELSE 2 * Pow2(n - 1)

\* (value >> i) & 1
BitOf(value, i) == (value \div Pow2(i)) % 2

\* value.toString().padStart(3, "0")[position] as a number, value below 1000
DigitOf(value, position) ==
  CASE position = 0 -> (value \div 100) % 10
    [] position = 1 -> (value \div 10) % 10
    [] position = 2 -> value % 10

RECURSIVE UserValueFrom(_, _)
\* userBits.reduce((acc, bit, index) => acc + (bit ? 2 ** index : 0), 0)
UserValueFrom(bits, index) ==
  IF index > 7 THEN 0
  ELSE (IF bits[index] THEN Pow2(index) ELSE 0) + UserValueFrom(bits, index + 1)

UserValue(m) == UserValueFrom(m.userBits, 0)

\* gameTimer = setTimeout(cb, d)
SetGameTimer(m, k, d, a, b, c) ==
  [m EXCEPT !.timers = Append(DropRef(m.timers, "game"),
                              Timer(k, d, "game", a, b, c)),
            !.gameTimer = "pending"]

\* if (gameTimer) clearTimeout(gameTimer)
ClearGameTimer(m) ==
  IF m.gameTimer = "null" THEN m
  ELSE [m EXCEPT !.timers = CancelRef(m.timers, "game")]

\* if (incrementTimer) clearTimeout(incrementTimer): an interval is
\* cleared by clearTimeout as well
ClearIncrementTimer(m) ==
  IF m.incrementTimer = "null" THEN m
  ELSE [m EXCEPT !.timers = CancelRef(m.timers, "increment")]

RECURSIVE displayBits(_, _, _)
displayBits(l, value, i) ==
  IF i > 7 THEN l
  ELSE displayBits(SetLed(l, i, IF BitOf(value, i) = 1 THEN 127 ELSE 0),
                   value, i + 1)

\* the decimal digits computed in counter mode are only logged
displayBinaryValue(m, value) ==
  [m EXCEPT !.leds = displayBits(m.leds, value, 0)]

showModeSelection(m) ==
  LET cleared == ClearLeds(m.leds, ALL_KNOBS)
      Mode(l, i) ==
        SetLed(l, MODE_SELECTION_KNOBS[i],
               IF gameModes[i] = m.mode THEN 127 ELSE 30 + (i - 1) * 30)
      modes == Mode(Mode(Mode(cleared, 1), 2), 3)
      start == SetLed(modes, START_BUTTON, 64)
      speedValue == ((2000 - m.incrementSpeed) * 127) \div 1750
  IN [m EXCEPT !.leds = SetLed(start, SPEED_CONTROL_KNOB, speedValue)]

resetToSetup(m) == showModeSelection([m EXCEPT !.gameState = SETUP])

\* Math.random() is one of RandomUnit equal steps of [0, 1)
RandomUnit == 256

\* incrementTimer = setInterval(incrementCounter, incrementSpeed), after
\* clearing the interval that was running
startAutoIncrement(m) ==
  LET m1 == ClearIncrementTimer(m)
  IN [m1 EXCEPT !.timers = Append(DropRef(m1.timers, "increment"),
                                  Timer("incrementCounter", m.incrementSpeed,
                                        "increment", m.incrementSpeed,
                                        Undefined, Undefined)),
                !.incrementTimer = "pending"]

incrementCounter(m) ==
  LET m1 == [m EXCEPT !.counter = (m.counter + 1) % (MAX_BINARY_VALUE + 1)]
  IN displayBinaryValue(m1, m1.counter)

startBinaryCounter(m) ==
  LET m1 == displayBinaryValue([m EXCEPT !.counter = 0], 0)
  IN IF m1.autoIncrement THEN startAutoIncrement(m1) ELSE m1

\* the closure flashTarget of showTargetHint: flashCount and the digits of
\* the target are its own
flashTarget(m, flashCount, target) ==
  IF flashCount >= 6 \/ m.gameState # PLAYING THEN m
  ELSE LET isOn == flashCount % 2 = 0
           Digit(l, i) ==
             SetLed(l, i, IF isOn THEN DigitOf(target, i - 8) * 15 ELSE 0)
           m1 == [m EXCEPT !.leds = Digit(Digit(Digit(@, 8), 9), 10)]
       IN SetTimeoutUntracked(m1, "flashTarget", 300, flashCount + 1, target,
                              Undefined)

showTargetHint(m) ==
  LET Clear(l, i) == SetLed(l, i, 0)
      m1 == [m EXCEPT !.leds = Clear(Clear(Clear(Clear(@, 8), 9), 10), 11)]
  IN flashTarget(m1, 0, m.targetNumber)

\* startTime is read from the clock and only compared with a later reading
startPuzzleTimer(m) ==
  SetGameTimer(ClearGameTimer(m), "updateTimer", 100, Undefined, Undefined,
               Undefined)

\* rnd is the step Math.random() returns
startBinaryPuzzle(m, rnd) ==
  LET m1 == [m EXCEPT
               !.userBits = [k \in BinaryKnobs |-> FALSE],
               !.targetNumber = (rnd * (MAX_BINARY_VALUE + 1)) \div RandomUnit,
               !.timeLimit = 10000 - m.level * 500,
               !.atTarget = [level |-> m.level, score |-> m.score],
               !.leds = SetLeds(@, BINARY_KNOBS, 0)]
  IN startPuzzleTimer(showTargetHint(m1))

startBinaryMemory(m, rnd) ==
  LET m1 == [m EXCEPT
               !.targetNumber =
                 (rnd * (Pow2(m.level) - 1)) \div RandomUnit + 1,
               !.userBits = [k \in BinaryKnobs |-> FALSE],
               !.leds = SetLed(ClearLeds(@, ALL_KNOBS), START_BUTTON, 64)]
      m2 == displayBinaryValue(m1, m1.targetNumber)
      viewTime == Max2(3000 - m.level * 200, 1000)
  IN SetTimeoutUntracked(m2, "hideTarget", viewTime, Undefined, Undefined,
                         Undefined)

\* the callback an animation was given: the next puzzle or the next
\* memory challenge
NextChallenge(m, callback, rnd) ==
  IF callback = BINARY_PUZZLE THEN startBinaryPuzzle(m, rnd)
  ELSE startBinaryMemory(m, rnd)

\* the closure runStep of showSuccessAnimation
successStep(m, step, callback, rnd) ==
  IF step >= 8 \/ m.gameState # PLAYING THEN NextChallenge(m, callback, rnd)
  ELSE LET m1 == [m EXCEPT
                    !.leds = SetLeds(@, BINARY_KNOBS,
                                     IF step % 2 = 0 THEN 127 ELSE 0)]
       IN SetDisplayTimer(m1, "successStep", 100, step + 1, callback,
                          Undefined)

showSuccessAnimation(m, callback, rnd) ==
  successStep(ClearDisplayTimer(m), 0, callback, rnd)

\* the closure runStep of showTimeoutAnimation
timeoutStep(m, step, callback) ==
  IF step >= 6 \/ m.gameState # PLAYING
  THEN SetTimeoutUntracked(displayBinaryValue(m, m.targetNumber),
                           "afterTimeout", 1000, callback, Undefined,
                           Undefined)
  ELSE LET m1 == IF step % 2 = 0
                 THEN displayBinaryValue(m, m.targetNumber)
                 ELSE [m EXCEPT !.leds = SetLeds(@, BINARY_KNOBS, 0)]
       IN SetDisplayTimer(m1, "timeoutStep", 300, step + 1, callback,
                          Undefined)

showTimeoutAnimation(m, callback) ==
  timeoutStep(ClearDisplayTimer(m), 0, callback)

RECURSIVE mistakeBits(_, _, _, _)
mistakeBits(l, m, isOn, knob) ==
  IF knob > 7 THEN l
  ELSE LET correctBit == BitOf(m.targetNumber, knob) = 1
           value == IF correctBit # m.userBits[knob]
                    THEN (IF isOn THEN 127 ELSE 0)
                    ELSE (IF correctBit THEN 64 ELSE 0)
       IN mistakeBits(SetLed(l, knob, value), m, isOn, knob + 1)

\* the closure runStep of showMistakeAnimation
mistakeStep(m, step, callback, rnd) ==
  IF step >= 6 \/ m.gameState # PLAYING THEN NextChallenge(m, callback, rnd)
  ELSE LET m1 == [m EXCEPT !.leds = mistakeBits(@, m, step % 2 = 0, 0)]
       IN SetDisplayTimer(m1, "mistakeStep", 300, step + 1, callback,
                          Undefined)

showMistakeAnimation(m, callback, rnd) ==
  mistakeStep(ClearDisplayTimer(m), 0, callback, rnd)

LEDOrder == <<0, 1, 2, 3, 7, 11, 15, 14, 13, 12, 8, 4, 5, 6, 10, 9>>

RECURSIVE circleLeds(_, _, _)
circleLeds(l, step, i) ==
  IF i > Len(ALL_KNOBS) THEN l
  ELSE circleLeds(SetLed(l, ALL_KNOBS[i],
                         IF LEDOrder[step + 1] = ALL_KNOBS[i] THEN 127 ELSE 0),
                  step, i + 1)

\* the closure animate of gameOver
animate(m, step) ==
  IF step >= 16 \/ m.gameState # GAME_OVER
  THEN LET m1 == displayBinaryValue(m, m.score)
           Mark(l, i) == SetLed(l, i, 32)
       IN [m1 EXCEPT !.leds = Mark(Mark(Mark(Mark(@, 8), 9), 10), 11)]
  ELSE SetDisplayTimer([m EXCEPT !.leds = circleLeds(@, step, 1)],
                       "animate", 100, step + 1, Undefined, Undefined)

binaryGameOver(m) ==
  LET m1 == [m EXCEPT !.gameState = GAME_OVER,
                      !.highScore = IF m.score > m.highScore THEN m.score
                                    ELSE m.highScore]
  IN animate(ClearDisplayTimer(m1), 0)

checkPuzzleSolution(m, rnd) ==
  IF UserValue(m) = m.targetNumber
  THEN showSuccessAnimation([m EXCEPT !.score = m.score + m.level * 10,
                                      !.level = m.level + 1],
                            BINARY_PUZZLE, rnd)
  ELSE m

handlePuzzleTimeout(m) ==
  LET m1 == [m EXCEPT !.lives = m.lives - 1]
  IN IF m1.lives <= 0 THEN binaryGameOver(m1)
     ELSE showTimeoutAnimation(m1, BINARY_PUZZLE)

checkMemorySolution(m, rnd) ==
  IF UserValue(m) = m.targetNumber
  THEN LET credited == m.score + m.level * 5
       IN showSuccessAnimation(
            [m EXCEPT !.score = credited, !.level = m.level + 1,
                      !.highScore = IF credited > m.highScore THEN credited
                                    ELSE m.highScore],
            BINARY_MEMORY, rnd)
  ELSE LET m1 == [m EXCEPT !.lives = m.lives - 1]
       IN IF m1.lives <= 0 THEN binaryGameOver(m1)
          ELSE showMistakeAnimation(displayBinaryValue(m1, m1.targetNumber),
                                    BINARY_MEMORY, rnd)

\* the closure updateTimer of startPuzzleTimer. The clock decides how much
\* of the time limit remains when the callback runs: progress is that
\* share in thousandths, 0 when the limit has passed.
updateTimer(m, progress) ==
  IF m.gameState # PLAYING \/ m.mode # BINARY_PUZZLE THEN m
  ELSE IF progress > 0
       THEN SetGameTimer([m EXCEPT !.leds = SetLed(@, START_BUTTON,
                                                  (progress * 127) \div 1000)],
                         "updateTimer", 100, Undefined, Undefined, Undefined)
       ELSE handlePuzzleTimeout(m)

startSelectedMode(m, rnd) ==
  LET m1 == [m EXCEPT !.leds = ClearLeds(@, ALL_KNOBS),
                      !.gameState = PLAYING,
                      !.counter = 0,
                      !.userBits = [k \in BinaryKnobs |-> FALSE],
                      !.score = 0,
                      !.level = 1,
                      !.lives = 3]
  IN CASE m1.mode = BINARY_COUNTER -> startBinaryCounter(m1)
       [] m1.mode = BINARY_PUZZLE -> startBinaryPuzzle(m1, rnd)
       [] m1.mode = BINARY_MEMORY -> startBinaryMemory(m1, rnd)

binaryDeactivate(m) ==
  LET m1 == [ClearDisplayTimer(m) EXCEPT !.displayTimer = "null"]
      m2 == [ClearGameTimer(m1) EXCEPT !.gameTimer = "null"]
      m3 == [ClearIncrementTimer(m2) EXCEPT !.incrementTimer = "null"]
  IN [m3 EXCEPT !.leds = ClearLeds(@, ALL_KNOBS)]

\* the state is reset, the high score is preserved
binaryActivate(m) ==
  LET m1 == binaryDeactivate(m)
      m2 == [m1 EXCEPT !.mode = BINARY_COUNTER,
                       !.gameState = SETUP,
                       !.counter = 0,
                       !.targetNumber = 0,
                       !.userBits = [k \in BinaryKnobs |-> FALSE],
                       !.score = 0,
                       !.timeLimit = 10000,
                       !.level = 1,
                       !.lives = 3,
                       !.autoIncrement = TRUE,
                       !.incrementSpeed = DEFAULT_INCREMENT_SPEED,
                       !.leds = ClearLeds(@, ALL_KNOBS)]
  IN showModeSelection(m2)

\* the bit of a knob is set to b and shown
SetBit(m, control, b) ==
  [m EXCEPT !.userBits[control] = b,
            !.leds = SetLed(@, control, IF b THEN 127 ELSE 0)]

binaryHandleKnobTurn(m, control, value, rnd) ==
  CASE m.gameState = SETUP ->
         IF control \in ModeSelectionKnobs
         THEN showModeSelection(
                [m EXCEPT !.mode = gameModes[ModeIndex(control)]])
         ELSE IF control = SPEED_CONTROL_KNOB
         THEN [m EXCEPT
                 !.incrementSpeed = 2000 - (value * 1750) \div 127,
                 !.leds = SetLed(@, SPEED_CONTROL_KNOB, (value * 127) \div 127)]
         ELSE m
    [] m.gameState = PLAYING ->
         IF /\ m.mode \in {BINARY_PUZZLE, BINARY_MEMORY}
            /\ control \in BinaryKnobs
            /\ m.userBits[control] # (value > 64)
         THEN LET m1 == SetBit(m, control, value > 64)
              IN IF m.mode = BINARY_PUZZLE THEN checkPuzzleSolution(m1, rnd)
                 ELSE m1
         ELSE m
    [] OTHER -> m

binaryHandleButtonPress(m, control, rnd) ==
  CASE m.gameState = SETUP ->
         IF control \in ModeSelectionKnobs
         THEN showModeSelection(
                [m EXCEPT !.mode = gameModes[ModeIndex(control)]])
         ELSE IF control = START_BUTTON \/ control \in BinaryKnobs
         THEN startSelectedMode(m, rnd)
         ELSE m
    [] m.gameState = PLAYING ->
         CASE m.mode = BINARY_COUNTER ->
                IF ~m.autoIncrement
                THEN startAutoIncrement([m EXCEPT !.autoIncrement = TRUE])
                ELSE [ClearIncrementTimer(m) EXCEPT
                        !.autoIncrement = FALSE,
                        !.incrementTimer = "null"]
           [] m.mode = BINARY_PUZZLE ->
                IF control \in BinaryKnobs
                THEN checkPuzzleSolution(
                       SetBit(m, control, ~m.userBits[control]), rnd)
                ELSE m
           [] m.mode = BINARY_MEMORY ->
                IF control = START_BUTTON THEN checkMemorySolution(m, rnd)
                ELSE IF control \in BinaryKnobs
                THEN SetBit(m, control, ~m.userBits[control])
                ELSE m
    [] m.gameState = GAME_OVER -> resetToSetup(m)

\* the callback of a timer that fires; rnd and progress are what
\* Math.random() and the clock give it
binaryRunCallback(m, t, rnd, progress) ==
  CASE t.k = "flashTarget" -> flashTarget(m, t.a, t.b)
    [] t.k = "updateTimer" -> updateTimer(m, progress)
    [] t.k = "successStep" -> successStep(m, t.a, t.b, rnd)
    [] t.k = "timeoutStep" -> timeoutStep(m, t.a, t.b)
    [] t.k = "afterTimeout" -> NextChallenge(m, t.a, rnd)
    [] t.k = "mistakeStep" -> mistakeStep(m, t.a, t.b, rnd)
    [] t.k = "animate" -> animate(m, t.a)
    [] t.k = "incrementCounter" -> incrementCounter(m)
    [] t.k = "hideTarget" -> [m EXCEPT !.leds = SetLeds(@, BINARY_KNOBS, 0)]

\* the timer at index i fires: time advances to its deadline; a timeout is
\* gone and its handle names nothing pending, an interval is due again
\* after its period (kept in a)
binaryTakeTimer(m, i) ==
  LET t == m.timers[i]
      rest == RemoveAt(Elapse(m.timers, t.r), i)
  IN [m EXCEPT
        !.timers = IF t.k = "incrementCounter"
                   THEN Append(rest, [t EXCEPT !.r = t.a])
                   ELSE rest,
        !.displayTimer = IF t.ref = "display" THEN "stale" ELSE @,
        !.gameTimer = IF t.ref = "game" THEN "stale" ELSE @]

binaryFireTimer(m, rnd, progress) ==
  LET i == NextTimerIndex(m.timers)
  IN binaryRunCallback(binaryTakeTimer(m, i), m.timers[i], rnd, progress)


\* ------------------------------------------------------------------------
\* The hardware event being handled
\* ------------------------------------------------------------------------
VARIABLES
  input            \* the event the last step handled: op, control, value

Input(op, control, value) == [op |-> op, control |-> control, value |-> value]

\* the last step was no hardware event (a timer, a mode switch)
NoInput == Input("none", Undefined, Undefined)

VARIABLES
  session          \* what a run that follows the mode through its sessions
                   \* remembers: whether it does, the activations so far, and
                   \* whether no event was delivered since the last one

\* the run does not follow the sessions
NoSession == [tracked |-> FALSE, activations |-> 0, quiet |-> TRUE]

MaxSessions == 2

\* the mode is activated
Entered(s) ==
  IF s.tracked
  THEN [s EXCEPT !.activations = Min2(@ + 1, MaxSessions), !.quiet = TRUE]
  ELSE s

\* a turn or a press is delivered to the mode
Disturbed(s) == IF s.tracked THEN [s EXCEPT !.quiet = FALSE] ELSE s

vars ==
  <<sequence, userPosition, active, state, difficulty, score, highScore,
    speedMultiplier, mistakesAllowed, mistakesMade, displayTimer, idleTimer,
    timers, leds, events, main, held, engine, input, mixer, linking, anims,
    session, slack, binary>>

\* the state of simon.ts
simonState ==
  <<sequence, userPosition, active, state, difficulty, score, highScore,
    speedMultiplier, mistakesAllowed, mistakesMade, displayTimer, idleTimer,
    timers, leds>>

\* what the handlers of simon.ts, of index.ts and of the engine leave alone
otherThanSimon ==
  <<main, held, engine, mixer, linking, anims, slack, binary>>

otherThanMain ==
  <<simonState, engine, input, mixer, linking, anims, session,
    slack, binary>>

otherThanEngine ==
  <<simonState, main, held, input, mixer, linking, anims, session,
    slack, binary>>

\* what the handlers of color_mixer.ts and of normal_linking.ts leave alone
otherThanMixer ==
  <<simonState, main, held, engine, linking, anims, session,
    slack, binary>>

otherThanLinking ==
  <<simonState, main, held, engine, mixer, anims, session,
    slack, binary>>

\* what the handlers of the animation modes leave alone
otherThanAnims ==
  <<simonState, main, held, engine, mixer, linking, session,
    slack, binary>>

\* what the handlers of the photo-upload mode leave alone
otherThanSlack ==
  <<simonState, main, held, engine, mixer, linking, anims, session,
    binary>>

\* what the handlers of the binary games leave alone
otherThanBinary ==
  <<simonState, main, held, engine, mixer, linking, anims, session,
    slack>>

GAME_SELECT == "game_select"

GameControls == {0, 1, 2, 3, 4, 5, 6, 7, 8, 9, 15}

\* game_select.ts GAME_MAP
GAME_MAP ==
  [c \in GameControls |->
     CASE c = 0 -> "simon"
       [] c = 1 -> "chase"
       [] c = 2 -> "mirror"
       [] c = 3 -> "rainbow"
       [] c = 4 -> "pulse"
       [] c = 5 -> "ripple"
       [] c = 6 -> "wave"
       [] c = 7 -> "binary"
       [] c = 8 -> "fibonacci"
       [] c = 9 -> "random"
       [] OTHER -> "normal_linking"]

ModeNames == {GAME_MAP[c] : c \in GameControls} \cup {GAME_SELECT}

Call(op, mode, control) == [op |-> op, mode |-> mode, control |-> control]

EventOps == {"turn", "press", "release"}

\* a name no mode is registered under
UnknownMode == "no_such_mode"

\* switchTo with the check of the name left out
switchToAny(e, name) ==
  [e EXCEPT !.requests = Append(@, name),
            !.pc = "deactivating",
            !.target = name,
            !.log = Append(@, Call("deactivate", e.activeMode, Undefined))]

\* switchTo(name): the request is noted and the protocol starts: unknown
\* names are ignored, the active mode's deactivate is called
switchTo(e, name) ==
  LET e1 == [e EXCEPT !.requests = Append(@, name)]
  IN IF name \notin ModeNames THEN e1
     ELSE [e1 EXCEPT
             !.pc = "deactivating",
             !.target = name,
             !.log = Append(@, Call("deactivate", e.activeMode, Undefined))]

\* the handler activating the selected mode itself, the engine left out
selectHandleButtonPressDirect(e, control) ==
  IF control \in DOMAIN GAME_MAP
  THEN [e EXCEPT !.activeMode = GAME_MAP[control], !.handled = TRUE,
                 !.log = @ \o <<Call("activate", GAME_MAP[control], Undefined),
                                Call("activated", GAME_MAP[control], Undefined)>>]
  ELSE e

\* a handler for which every control selects the first game
selectHandleButtonPressFirst(e, control) ==
  [switchTo(e, GAME_MAP[0]) EXCEPT !.handled = TRUE]

\* GameSelectionMode.handleButtonPress: a mapped control selects its mode
\* through changeModeCallback and the press is handled
selectHandleButtonPress(e, control) ==
  IF control \in DOMAIN GAME_MAP
  THEN [switchTo(e, GAME_MAP[control]) EXCEPT !.handled = TRUE]
  ELSE [e EXCEPT !.handled = FALSE]

\* GameSelectionMode.handleKnobTurn
selectHandleKnobTurn(e, control) == [e EXCEPT !.handled = FALSE]

\* what the handler of the active mode does with an event: it returns true,
\* returns false or throws
Outcomes == {"handled", "ignored", "throws"}

\* the handler of the active mode returns: the Game Selection mode is the
\* code of game_select.ts (it has no release handler), of any other mode
\* only the value it returns is followed
handlerReturns(e, ev, outcome) ==
  IF e.activeMode = GAME_SELECT
  THEN CASE ev.op = "press" -> selectHandleButtonPress(e, ev.control)
         [] ev.op = "turn" -> selectHandleKnobTurn(e, ev.control)
         [] OTHER -> [e EXCEPT !.handled = FALSE]
  ELSE [e EXCEPT !.handled = (outcome = "handled")]

\* the long-press watchdog after an event: a press arms it for its control,
\* a release disarms it
watchdogAfter(e, ev) ==
  [e EXCEPT !.watchdog = IF ev.op = "press" THEN ev.control
                         ELSE IF ev.op = "release" THEN Undefined
                         ELSE @]

\* dispatch in which a throwing handler ends the dispatch: the watchdog is
\* not reached
dispatchUncaught(e, ev, outcome) ==
  LET e1 == [e EXCEPT
               !.log = Append(@, Call(ev.op, e.activeMode, ev.control)),
               !.faults = IF outcome = "throws"
                          THEN Append(@, Len(e.log) + 1) ELSE @,
               !.handled = FALSE]
  IN IF outcome = "throws" THEN e1
     ELSE watchdogAfter(handlerReturns(e1, ev, outcome), ev)

\* dispatch of one event to the active mode: the handler is called, an
\* error it throws is caught and the event is not handled, then the
\* watchdog is armed or disarmed
dispatch(e, ev, outcome) ==
  LET e1 == [e EXCEPT
               !.log = Append(@, Call(ev.op, e.activeMode, ev.control)),
               !.faults = IF outcome = "throws"
                          THEN Append(@, Len(e.log) + 1) ELSE @,
               !.handled = FALSE]
  IN watchdogAfter(IF outcome = "throws" THEN e1
                   ELSE handlerReturns(e1, ev, outcome), ev)

\* whether the engine may take the next event from the queue: no dispatch
\* and no switch is in flight
DispatchAllowed(e) == e.pc = "idle"

\* the engine once started: the Game Selection mode is active; log is the
\* calls so far, requests the names switchTo was called with, faults the
\* places in the log of the handler calls that threw
EngineStarted ==
  [activeMode |-> GAME_SELECT, pc |-> "idle", target |-> GAME_SELECT,
   watchdog |-> Undefined, queue |-> <<>>, log |-> <<>>, handled |-> FALSE,
   requests |-> <<>>, faults |-> <<>>]

\* ------------------------------------------------------------------------
\* Specification of the Memory Game under the event loop
\* ------------------------------------------------------------------------
\* the draws of Math.random() the model follows, in sixteenths
RandomDraws == {0, 9}

\* the buttons the player presses: the expected one or its neighbour
PressChoices ==
  IF state = WAITING_FOR_INPUT /\ userPosition < Len(sequence)
  THEN {sequence[userPosition + 1],
        (sequence[userPosition + 1] + 1) % NumControls}
  ELSE {0}

TurnControls == {0, 15}

TurnValues == {0, 40, 70, 127}

\* what a LED message makes of an undefined control number
NanChoices ==
  IF state = WAITING_FOR_INPUT /\ userPosition >= Len(sequence)
  THEN {Undefined, 0} ELSE {Undefined}

WithinBounds(m) ==
  /\ Len(m.timers) <= MaxTimers
  /\ Len(m.sequence) <= MaxSeqLen

\* simon.ts once loaded, the mode not yet activated
SimonLoaded ==
  /\ sequence = <<>>
  /\ userPosition = 0
  /\ active = FALSE
  /\ state = IDLE
  /\ difficulty = EASY
  /\ score = 0
  /\ highScore = 0
  /\ speedMultiplier = 2
  /\ mistakesAllowed = 0
  /\ mistakesMade = 0
  /\ displayTimer = "null"
  /\ idleTimer = "null"
  /\ timers = <<>>
  /\ leds = NoWrites

\* the parts of the program a specification leaves alone
MainLeftAlone == main = MainLoaded /\ held = NoneHeld /\ input = NoInput

EngineLeftAlone == engine = EngineStarted

MixerLeftAlone == mixer = MixerLoaded

LinkingLeftAlone == linking = LinkingLoaded

AnimsLeftAlone == anims = AnimsLoaded

SessionLeftAlone == session = NoSession

SlackLeftAlone == slack = SlackLoaded

BinaryLeftAlone == binary = BinaryLoaded

SimonInit ==
  /\ SimonLoaded
  /\ events = 0
  /\ MainLeftAlone
  /\ EngineLeftAlone
  /\ MixerLeftAlone
  /\ LinkingLeftAlone
  /\ AnimsLeftAlone
  /\ SessionLeftAlone
  /\ SlackLeftAlone
  /\ BinaryLeftAlone

\* one more hardware event or mode switch is delivered
Event ==
  /\ events < MaxEvents
  /\ events' = events + 1

\* the state a handler starts from: it has not sent any message yet
Start == [Cur EXCEPT !.leds = NoWrites]

Activate ==
  /\ ~active
  /\ Event
  /\ WithinBounds(activate(Start))
  /\ Commit(activate(Start))
  /\ input' = NoInput
  /\ session' = Entered(session)
  /\ UNCHANGED otherThanSimon

Deactivate ==
  /\ active
  /\ Event
  /\ Commit(deactivate(Start))
  /\ input' = NoInput
  /\ UNCHANGED session
  /\ UNCHANGED otherThanSimon

Press ==
  /\ active
  /\ Event
  /\ \E control \in PressChoices, nan \in NanChoices :
       LET m == handleButtonPress(Start, control, 0, nan)
       IN /\ WithinBounds(m)
          /\ Commit(m)
          /\ input' = Input("press", control, MaxLed)
  /\ session' = Disturbed(session)
  /\ UNCHANGED otherThanSimon

Turn ==
  /\ active
  /\ Event
  /\ \E control \in TurnControls, value \in TurnValues :
       LET m == handleKnobTurn(Start, control, value, 0)
       IN /\ WithinBounds(m)
          /\ Commit(m)
          /\ input' = Input("turn", control, value)
  /\ session' = Disturbed(session)
  /\ UNCHANGED otherThanSimon

Fire ==
  /\ timers # <<>>
  /\ UNCHANGED events
  /\ \E rnd \in RandomDraws :
       LET m == FireTimer(Start, rnd)
       IN WithinBounds(m) /\ Commit(m)
  /\ input' = NoInput
  /\ UNCHANGED session
  /\ UNCHANGED otherThanSimon

SimonNext == Activate \/ Deactivate \/ Press \/ Turn \/ Fire

SimonSpec == SimonInit /\ [][SimonNext]_vars

\* ------------------------------------------------------------------------
\* Specification of a game in progress: the Memory Game was activated, the
\* idle pulse ran out, a press started an Easy game, and the playback of the
\* first step has ended: it is the player's turn
\* ------------------------------------------------------------------------
PlayInit ==
  /\ sequence \in {<<0>>, <<9>>}
  /\ userPosition = 0
  /\ active = TRUE
  /\ state = WAITING_FOR_INPUT
  /\ difficulty = EASY
  /\ score = 1
  /\ highScore = 1
  /\ speedMultiplier = difficultySettings[EASY].speedMultiplier
  /\ mistakesAllowed = difficultySettings[EASY].mistakesAllowed
  /\ mistakesMade = 0
  /\ displayTimer = "null"
  /\ idleTimer = "stale"
  /\ timers = <<>>
  /\ leds = NoWrites
  /\ events = MaxEvents - MaxPlayEvents
  /\ MainLeftAlone
  /\ EngineLeftAlone
  /\ MixerLeftAlone
  /\ LinkingLeftAlone
  /\ AnimsLeftAlone
  /\ SessionLeftAlone
  /\ SlackLeftAlone
  /\ BinaryLeftAlone

PlaySpec == PlayInit /\ [][SimonNext]_vars

\* ------------------------------------------------------------------------
\* Specification of the step generation alone: addStepToSimon applied to
\* every sequence it can build, at every difficulty
\* ------------------------------------------------------------------------
GenInit ==
  /\ sequence = <<>>
  /\ userPosition = 0
  /\ active = TRUE
  /\ state = IDLE
  /\ difficulty \in Difficulty
  /\ score = 0
  /\ highScore = 0
  /\ speedMultiplier = difficultySettings[difficulty].speedMultiplier
  /\ mistakesAllowed = difficultySettings[difficulty].mistakesAllowed
  /\ mistakesMade = 0
  /\ displayTimer = "null"
  /\ idleTimer = "null"
  /\ timers = <<>>
  /\ leds = NoWrites
  /\ events = 0
  /\ MainLeftAlone
  /\ EngineLeftAlone
  /\ MixerLeftAlone
  /\ LinkingLeftAlone
  /\ AnimsLeftAlone
  /\ SessionLeftAlone
  /\ SlackLeftAlone
  /\ BinaryLeftAlone

GenAddStep ==
  /\ Len(sequence) < MaxGenLen
  /\ \E rnd \in 0 .. (NumControls - 1) : Commit(addStepToSimon(Start, rnd))
  /\ UNCHANGED <<events, input, session, otherThanSimon>>

\* the difficulty is selected anew between two steps (a turn of control 0)
GenSelectDifficulty ==
  /\ \E d \in Difficulty \ {difficulty} :
       /\ difficulty' = d
       /\ speedMultiplier' = difficultySettings[d].speedMultiplier
       /\ mistakesAllowed' = difficultySettings[d].mistakesAllowed
  /\ UNCHANGED <<sequence, userPosition, active, state, score, highScore,
                 mistakesMade, displayTimer, idleTimer, timers, leds, events,
                 input, session, otherThanSimon>>

GenNext == GenAddStep \/ GenSelectDifficulty

GenSpec == GenInit /\ [][GenNext]_vars

\* ------------------------------------------------------------------------
\* Specification of index.ts under the event loop: presses, releases and
\* turns of a few controls, the timers, and the passing of time
\* ------------------------------------------------------------------------
MainPressControls == {0, 4, 5}

MainTurnControls == {4}

MainTurnValues == {100}

\* how long the model lets time pass in one step, in ms
AdvanceStep == 500

\* the age from which a held button is no longer told apart
HoldCap == 2000

MainInit ==
  /\ SimonLoaded
  /\ events = 0
  /\ MainLeftAlone
  /\ EngineLeftAlone
  /\ MixerLeftAlone
  /\ LinkingLeftAlone
  /\ AnimsLeftAlone
  /\ SessionLeftAlone
  /\ SlackLeftAlone
  /\ BinaryLeftAlone

MainStart == [main EXCEPT !.leds = NoWrites]

WithinMainBounds(m) ==
  /\ Len(m.timers) <= MaxTimers
  /\ Len(m.simonSequence) <= MaxSeqLen

\* the held buttons have been held d ms longer
HeldElapse(h, d) ==
  [c \in DOMAIN h |->
     IF h[c].press = 0 THEN h[c]
     ELSE [h[c] EXCEPT !.age = Min2(HoldCap, @ + d)]]

\* one more hardware event is delivered to index.ts
MainEvent ==
  /\ events < MaxMainEvents
  /\ events' = events + 1

MainPress ==
  /\ MainEvent
  /\ \E control \in MainPressControls :
       /\ held[control].press = 0
       /\ LET m == onMessage(MainStart, BUTTON_CHANNEL, control, MaxLed, events + 1)
          IN WithinMainBounds(m) /\ main' = m
       /\ held' = [held EXCEPT ![control] = [press |-> events + 1, age |-> 0]]
  /\ UNCHANGED otherThanMain

MainRelease ==
  /\ MainEvent
  /\ \E control \in MainPressControls :
       /\ held[control].press # 0
       /\ main' = onMessage(MainStart, BUTTON_CHANNEL, control, 0, 0)
       /\ held' = [held EXCEPT ![control] = NotHeld]
  /\ UNCHANGED otherThanMain

MainTurn ==
  /\ MainEvent
  /\ \E control \in MainTurnControls, value \in MainTurnValues :
       main' = onMessage(MainStart, KNOB_CHANNEL, control, value, 0)
  /\ UNCHANGED <<held, otherThanMain>>

MainFire ==
  /\ main.timers # <<>>
  /\ \E rnd \in RandomDraws :
       LET m == MainFireTimer(MainStart, rnd)
       IN WithinMainBounds(m) /\ main' = m
  /\ held' = HeldElapse(held, MinRemaining(main.timers))
  /\ UNCHANGED <<events, otherThanMain>>

\* time passes without any timer becoming overdue
MainAdvance ==
  /\ main.timers # <<>> => AdvanceStep <= MinRemaining(main.timers)
  /\ main' = MainElapse(MainStart, AdvanceStep)
  /\ held' = HeldElapse(held, AdvanceStep)
  /\ UNCHANGED <<events, otherThanMain>>

MainNext == MainPress \/ MainRelease \/ MainTurn \/ MainFire \/ MainAdvance

MainSpec == MainInit /\ [][MainNext]_vars

\* ------------------------------------------------------------------------
\* Specification of the mode engine: events arrive at any moment, the
\* engine dispatches them, the calls of a switch return one after the other
\* ------------------------------------------------------------------------
MaxEngineEvents == 4

EngineControls == {0, 10, 15}

\* one more event, request or firing of the watchdog reaches the engine
EngineEvent ==
  /\ events < MaxEngineEvents
  /\ events' = events + 1

EngineInit ==
  /\ SimonLoaded
  /\ events = 0
  /\ MainLeftAlone
  /\ EngineLeftAlone
  /\ MixerLeftAlone
  /\ LinkingLeftAlone
  /\ AnimsLeftAlone
  /\ SessionLeftAlone
  /\ SlackLeftAlone
  /\ BinaryLeftAlone

ModesLeftAlone == UNCHANGED otherThanEngine

\* the hardware delivers an event: it waits in the queue of the event loop
EngineArrive ==
  /\ EngineEvent
  /\ \E op \in EventOps, control \in EngineControls :
       engine' = [engine EXCEPT
                    !.queue = Append(@, [op |-> op, control |-> control])]
  /\ ModesLeftAlone

EngineDispatch ==
  /\ DispatchAllowed(engine)
  /\ engine.queue # <<>>
  /\ \E outcome \in Outcomes :
       engine' = dispatch([engine EXCEPT !.queue = Tail(@)],
                          Head(engine.queue), outcome)
  /\ ModesLeftAlone
  /\ UNCHANGED events

\* the deactivate of the old mode returns: the engine sets the active mode
\* and calls the activate of the new one
EngineDeactivated ==
  /\ engine.pc = "deactivating"
  /\ engine' = [engine EXCEPT
                  !.pc = "activating",
                  !.activeMode = engine.target,
                  !.log = @ \o <<Call("deactivated", engine.activeMode, Undefined),
                                 Call("activate", engine.target, Undefined)>>]
  /\ ModesLeftAlone
  /\ UNCHANGED events

EngineActivated ==
  /\ engine.pc = "activating"
  /\ engine' = [engine EXCEPT
                  !.pc = "idle",
                  !.log = Append(@, Call("activated", engine.activeMode, Undefined))]
  /\ ModesLeftAlone
  /\ UNCHANGED events

\* the long-press watchdog fires: the engine switches to Game Selection
EngineWatchdog ==
  /\ EngineEvent
  /\ engine.pc = "idle"
  /\ engine.watchdog # Undefined
  /\ engine' = switchTo([engine EXCEPT !.watchdog = Undefined], GAME_SELECT)
  /\ ModesLeftAlone

\* a switch is requested by name, registered or not
EngineRequest ==
  /\ EngineEvent
  /\ engine.pc = "idle"
  /\ \E name \in {GAME_SELECT, UnknownMode} :
       engine' = switchTo(engine, name)
  /\ ModesLeftAlone

EngineNext ==
  \/ EngineArrive
  \/ EngineRequest
  \/ EngineDispatch
  \/ EngineDeactivated
  \/ EngineActivated
  \/ EngineWatchdog

EngineSpec == EngineInit /\ [][EngineNext]_vars

\* ------------------------------------------------------------------------
\* Specification of the Color Mixer: the mode is activated and deactivated,
\* knobs are pressed, released and turned, and the animation interval ticks.
\* The clock advances by ANIMATION_INTERVAL with every tick.
\* ------------------------------------------------------------------------
MaxMixerEvents == 5
MaxMixerTicks == 10

MixerPressControls == {0, 3, 4, 5}

MixerTurnControls == {0, 1, 2, 5}

MixerReleaseControls == {4}

\* the speed selector and the knob of a group are turned to the two ends
\* only
MixerTurnValues(control) ==
  IF control \in {2, 5} THEN {0, 127} ELSE {0, 4, 127}

MixerInit ==
  /\ SimonLoaded
  /\ events = 0
  /\ MainLeftAlone
  /\ EngineLeftAlone
  /\ MixerLeftAlone
  /\ LinkingLeftAlone
  /\ AnimsLeftAlone
  /\ SessionLeftAlone
  /\ SlackLeftAlone
  /\ BinaryLeftAlone

MixerEvent ==
  /\ events < MaxMixerEvents
  /\ events' = events + 1

\* the state a handler of the mode starts from
MixerStart == [mixer EXCEPT !.leds = NoWrites]

MixerActivate ==
  /\ ~mixer.active
  /\ MixerEvent
  /\ mixer' = [mixerActivate(MixerStart) EXCEPT !.active = TRUE]
  /\ input' = NoInput
  /\ UNCHANGED otherThanMixer

MixerDeactivate ==
  /\ mixer.active
  /\ MixerEvent
  /\ mixer' = [mixerDeactivate(MixerStart) EXCEPT !.active = FALSE]
  /\ input' = NoInput
  /\ UNCHANGED otherThanMixer

MixerPress ==
  /\ mixer.active
  /\ MixerEvent
  /\ \E control \in MixerPressControls :
       /\ mixer' = mixerHandleButtonPress(MixerStart, control)
       /\ input' = Input("press", control, MaxLed)
  /\ UNCHANGED otherThanMixer

MixerRelease ==
  /\ mixer.active
  /\ MixerEvent
  /\ \E control \in MixerReleaseControls :
       /\ mixer' = mixerHandleButtonRelease(MixerStart, control)
       /\ input' = Input("release", control, 0)
  /\ UNCHANGED otherThanMixer

MixerTurn ==
  /\ mixer.active
  /\ MixerEvent
  /\ \E control \in MixerTurnControls :
       \E value \in MixerTurnValues(control) :
         /\ mixer' = mixerHandleKnobTurn(MixerStart, control, value)
         /\ input' = Input("turn", control, value)
  /\ UNCHANGED otherThanMixer

RECURSIVE ChoiceSeqs(_)
\* the sequences that take their i-th element from the i-th set
ChoiceSeqs(sets) ==
  IF sets = <<>> THEN {<<>>}
  ELSE {<<h>> \o t : h \in Head(sets), t \in ChoiceSeqs(Tail(sets))}

\* the interval fires, ANIMATION_INTERVAL after its last run
MixerTick ==
  /\ mixer.intervals > 0
  /\ mixer.now < MaxMixerTicks * ANIMATION_INTERVAL
  /\ LET m == [MixerStart EXCEPT !.now = @ + ANIMATION_INTERVAL]
         choices == [i \in 1 .. Len(m.activeAnimations) |->
                       IF EaseExists(m.activeAnimations[i].animIndex)
                       THEN FinalValues(m.activeAnimations[i], m.now)
                       ELSE {Undefined}]
     IN \E finals \in ChoiceSeqs(choices) : mixer' = animationLoop(m, finals)
  /\ input' = Input("tick", Undefined, Undefined)
  /\ UNCHANGED <<events, otherThanMixer>>

MixerNext ==
  \/ MixerActivate
  \/ MixerDeactivate
  \/ MixerPress
  \/ MixerRelease
  \/ MixerTurn
  \/ MixerTick

MixerSpec == MixerInit /\ [][MixerNext]_vars

\* ------------------------------------------------------------------------
\* Specification of the color mixing: the Color Mixer was activated and the
\* three color selectors were turned, to any of ColorValues; the last events
\* of MixerSpec follow
\* ------------------------------------------------------------------------
ColorValues == {0, 1, 42, 43, 63, 64, 85, 126, 127}

\* the mode after activate and a turn of each color selector
Mixed(r, g, b) ==
  LET m0 == [mixerActivate(MixerLoaded) EXCEPT !.active = TRUE]
      m1 == mixerHandleKnobTurn(m0, COLOR_SELECTOR_KNOB_R, r)
      m2 == mixerHandleKnobTurn(m1, COLOR_SELECTOR_KNOB_G, g)
  IN mixerHandleKnobTurn([m2 EXCEPT !.leds = NoWrites],
                         COLOR_SELECTOR_KNOB_B, b)

PaletteInit ==
  /\ SimonLoaded
  /\ events = MaxMixerEvents - 2
  /\ main = MainLoaded
  /\ held = NoneHeld
  /\ EngineLeftAlone
  /\ LinkingLeftAlone
  /\ AnimsLeftAlone
  /\ SessionLeftAlone
  /\ SlackLeftAlone
  /\ BinaryLeftAlone
  /\ \E r, g, b \in ColorValues :
       /\ mixer = Mixed(r, g, b)
       /\ input = Input("turn", COLOR_SELECTOR_KNOB_B, b)

PaletteSpec == PaletteInit /\ [][MixerNext]_vars

\* ------------------------------------------------------------------------
\* Specification of the Linking mode: the mode is activated and
\* deactivated, knobs are pressed and turned, delayed callbacks run
\* ------------------------------------------------------------------------
MaxLinkEvents == 6
MaxLinkTimers == 2

LinkControls == {0, 1, 2}

LinkValues == {0, 64, 127}

LinkInit ==
  /\ SimonLoaded
  /\ events = 0
  /\ MainLeftAlone
  /\ EngineLeftAlone
  /\ MixerLeftAlone
  /\ LinkingLeftAlone
  /\ AnimsLeftAlone
  /\ SessionLeftAlone
  /\ SlackLeftAlone
  /\ BinaryLeftAlone

LinkEvent ==
  /\ events < MaxLinkEvents
  /\ events' = events + 1

LinkStart == [linking EXCEPT !.leds = NoWrites]

\* the press of a control other than the pending source commits a link
CommitsTo(m, control) ==
  m.firstKnob # NoKnob /\ m.firstKnob.control # control

\* the history after a press and after a turn of a control
FreshAfterPress(m, control) ==
  IF CommitsTo(m, control) THEN m.fresh \cup {control}
  ELSE m.fresh \ {control}

FreshAfterTurn(m, control) == m.fresh \ {control}

LinkActivate ==
  /\ ~linking.active
  /\ LinkEvent
  /\ linking' = [linkingActivate(LinkStart) EXCEPT !.active = TRUE,
                                                   !.fresh = {}]
  /\ input' = NoInput
  /\ UNCHANGED otherThanLinking

LinkDeactivate ==
  /\ linking.active
  /\ LinkEvent
  /\ linking' = [linkingDeactivate(LinkStart) EXCEPT !.active = FALSE,
                                                     !.fresh = {}]
  /\ input' = NoInput
  /\ UNCHANGED otherThanLinking

LinkPress ==
  /\ linking.active
  /\ LinkEvent
  /\ \E control \in LinkControls :
       LET m == linkingHandleButtonPress(LinkStart, control)
       IN /\ Len(m.timers) <= MaxLinkTimers
          /\ linking' = [m EXCEPT !.fresh = FreshAfterPress(linking, control)]
          /\ input' = Input("press", control, MaxLed)
  /\ UNCHANGED otherThanLinking

LinkTurn ==
  /\ linking.active
  /\ LinkEvent
  /\ \E control \in LinkControls, value \in LinkValues :
       /\ linking' = [linkingHandleKnobTurn(LinkStart, control, value)
                        EXCEPT !.fresh = FreshAfterTurn(linking, control)]
       /\ input' = Input("turn", control, value)
  /\ UNCHANGED otherThanLinking

\* the oldest delayed callback runs
LinkFire ==
  /\ linking.timers # <<>>
  /\ linking' = linkingFlashOff(LinkStart)
  /\ input' = NoInput
  /\ UNCHANGED <<events, otherThanLinking>>

LinkNext ==
  \/ LinkActivate
  \/ LinkDeactivate
  \/ LinkPress
  \/ LinkTurn
  \/ LinkFire

LinkSpec == LinkInit /\ [][LinkNext]_vars

\* ------------------------------------------------------------------------
\* The animation modes under activations, deactivations, events of the
\* active mode and their timers
\* ------------------------------------------------------------------------
MaxAnimEvents == 4
MaxAnimFires == 4

AnimTriggers == {Undefined, 0, 5}
AnimControls == {0, 5}
AnimTurnValues == {0, 127}

\* what randomValue() returns for the sixteen knobs
RandomFrames ==
  {[i \in 1 .. 16 |-> 0], [i \in 1 .. 16 |-> 127],
   [i \in 1 .. 16 |-> (37 * i) % 128]}

AnimInit ==
  /\ SimonLoaded
  /\ events = 0
  /\ MainLeftAlone
  /\ EngineLeftAlone
  /\ MixerLeftAlone
  /\ LinkingLeftAlone
  /\ AnimsLeftAlone
  /\ SessionLeftAlone
  /\ SlackLeftAlone
  /\ BinaryLeftAlone

AnimEvent ==
  /\ events < MaxAnimEvents
  /\ events' = events + 1

AnimStart == [anims EXCEPT !.leds = NoWrites]

\* the engine enters a mode; no other mode is active
AnimActivate ==
  /\ AnimEvent
  /\ \E name \in AnimModes, triggeringControl \in AnimTriggers :
       /\ anims.active \in {"none", name}
       /\ anims' = [animActivate(AnimStart, name, triggeringControl)
                      EXCEPT !.active = name]
       /\ input' = Input("activate", triggeringControl, Undefined)
  /\ UNCHANGED otherThanAnims

\* deactivate is called on a mode, active or not
AnimDeactivate ==
  /\ AnimEvent
  /\ \E name \in AnimModes :
       /\ anims' = [animDeactivate(AnimStart, name)
                      EXCEPT !.active = IF @ = name THEN "none" ELSE @]
       /\ input' = Input("deactivate", Undefined, Undefined)
  /\ UNCHANGED otherThanAnims

AnimTurn ==
  /\ anims.active # "none"
  /\ AnimEvent
  /\ \E control \in AnimControls, value \in AnimTurnValues :
       /\ anims' = animHandleKnobTurn(AnimStart, anims.active, control, value)
       /\ input' = Input("turn", control, value)
  /\ UNCHANGED otherThanAnims

AnimPress ==
  /\ anims.active # "none"
  /\ AnimEvent
  /\ \E control \in AnimControls :
       /\ anims' = animHandleButtonPress(AnimStart, anims.active, control)
       /\ input' = Input("press", control, MaxLed)
  /\ UNCHANGED otherThanAnims

AnimFired(a) == [a EXCEPT !.fired = @ + 1]

\* a pending interval of the Pulse mode fires
PulseFire ==
  /\ anims.pulse.timers # <<>>
  /\ anims.fired < MaxAnimFires
  /\ anims' = AnimFired(pulseStep(AnimStart))
  /\ input' = Input("tick", Undefined, Undefined)
  /\ UNCHANGED <<events, otherThanAnims>>

\* the timeout of the Ripple mode that is due fires
RippleFire ==
  /\ anims.ripple.timers # <<>>
  /\ anims.fired < MaxAnimFires
  /\ \E i \in 1 .. Len(anims.ripple.timers) :
       /\ anims.ripple.timers[i].r = MinRemaining(anims.ripple.timers)
       /\ anims' = AnimFired(rippleFire(AnimStart, i))
  /\ input' = Input("tick", Undefined, Undefined)
  /\ UNCHANGED <<events, otherThanAnims>>

RandomFire ==
  /\ anims.random.timers # <<>>
  /\ anims.fired < MaxAnimFires
  /\ \E values \in RandomFrames :
       anims' = AnimFired(randomStep(AnimStart, values))
  /\ input' = Input("tick", Undefined, Undefined)
  /\ UNCHANGED <<events, otherThanAnims>>

WaveFire ==
  /\ anims.wave.timers # <<>>
  /\ anims.fired < MaxAnimFires
  /\ \E values \in ChoiceSeqs(WaveFrames(anims.wave)),
        wraps \in WaveWraps(WavePhase(anims.wave), anims.wave.wraps) :
       anims' = AnimFired(waveStep(AnimStart, values, wraps))
  /\ input' = Input("tick", Undefined, Undefined)
  /\ UNCHANGED <<events, otherThanAnims>>

AnimNext ==
  \/ AnimActivate
  \/ AnimDeactivate
  \/ AnimTurn
  \/ AnimPress
  \/ PulseFire
  \/ RippleFire
  \/ RandomFire
  \/ WaveFire

AnimSpec == AnimInit /\ [][AnimNext]_vars


\* ------------------------------------------------------------------------
\* The Memory Game followed through its sessions
\* ------------------------------------------------------------------------
ReentryInit ==
  /\ SimonLoaded
  /\ events = 0
  /\ MainLeftAlone
  /\ EngineLeftAlone
  /\ MixerLeftAlone
  /\ LinkingLeftAlone
  /\ AnimsLeftAlone
  /\ session = [NoSession EXCEPT !.tracked = TRUE]
  /\ SlackLeftAlone
  /\ BinaryLeftAlone

ReentrySpec == ReentryInit /\ [][SimonNext]_vars


\* ------------------------------------------------------------------------
\* setLed called with brightness values in and out of range
\* ------------------------------------------------------------------------
\* how far past either end of 0..127 the brightness values go
Overshoot == 5

Brightness ==
  ((-Overshoot) .. Overshoot) \cup ((MaxLed - Overshoot) .. (MaxLed + Overshoot))
    \cup {-1000, 64, 1000}

ClampInit ==
  /\ SimonLoaded
  /\ events = 0
  /\ MainLeftAlone
  /\ EngineLeftAlone
  /\ MixerLeftAlone
  /\ LinkingLeftAlone
  /\ AnimsLeftAlone
  /\ SessionLeftAlone
  /\ SlackLeftAlone
  /\ BinaryLeftAlone

\* what a call of setLed leaves alone
otherThanLeds ==
  <<sequence, userPosition, active, state, difficulty, score, highScore,
    speedMultiplier, mistakesAllowed, mistakesMade, displayTimer, idleTimer,
    timers, events, session, otherThanSimon>>

\* interface.ts setLed is called on an output that has sent nothing
InterfaceSetLed ==
  /\ \E control \in Controls, value \in Brightness :
       /\ leds' = SetLed(NoWrites, control, value)
       /\ input' = Input("setLed", control, value)
  /\ UNCHANGED otherThanLeds

\* midiUtils.ts setLed is called on an output that has sent nothing
UtilsSetLed ==
  /\ \E knobIndex \in Controls, value \in Brightness :
       /\ leds' = utilsSetLed(NoWrites, knobIndex, value)
       /\ input' = Input("utilsSetLed", knobIndex, value)
  /\ UNCHANGED otherThanLeds

ClampNext == InterfaceSetLed \/ UtilsSetLed

ClampSpec == ClampInit /\ [][ClampNext]_vars


\* ------------------------------------------------------------------------
\* The photo-upload mode under presses, turns and uploads that settle
\* ------------------------------------------------------------------------
MaxSlackPresses == 2

SlackControls == {0, 15}

SlackInit ==
  /\ SimonLoaded
  /\ events = 0
  /\ MainLeftAlone
  /\ EngineLeftAlone
  /\ MixerLeftAlone
  /\ LinkingLeftAlone
  /\ AnimsLeftAlone
  /\ SessionLeftAlone
  /\ SlackLeftAlone
  /\ BinaryLeftAlone

SlackStart == [slack EXCEPT !.leds = NoWrites, !.handled = FALSE]

\* a knob is pressed while the photo-upload mode is active
SlackPress ==
  /\ Len(slack.presses) < MaxSlackPresses
  /\ \E control \in SlackControls, env \in Environments :
       /\ slack' = slackHandleButtonPress(SlackStart, control, env)
       /\ input' = Input("press", control, 127)
  /\ UNCHANGED <<events, otherThanSlack>>

SlackTurn ==
  /\ \E control \in SlackControls, value \in {0, 127} :
       /\ slack' = slackHandleKnobTurn(SlackStart, control, value)
       /\ input' = Input("turn", control, value)
  /\ UNCHANGED <<events, otherThanSlack>>

\* the fetch of a call of the hook settles and the call goes on
SlackSettle ==
  /\ \E p \in 1 .. Len(slack.presses) :
       /\ slack.presses[p].pending
       /\ slack' = uploadSettles(SlackStart, p)
       /\ input' = Input("settle", slack.presses[p].knob, 0)
  /\ UNCHANGED <<events, otherThanSlack>>

SlackNext == SlackPress \/ SlackTurn \/ SlackSettle

SlackSpec == SlackInit /\ [][SlackNext]_vars


\* ------------------------------------------------------------------------
\* The modes whose interval follows a speed: Pulse, Random and Fibonacci
\* under activations, deactivations, turns, presses and ticks
\* ------------------------------------------------------------------------
MaxIntervalEvents == 5

IntervalModes == {PULSE, RANDOM, FIBONACCI}

IntervalInit ==
  /\ SimonLoaded
  /\ events = 0
  /\ MainLeftAlone
  /\ EngineLeftAlone
  /\ MixerLeftAlone
  /\ LinkingLeftAlone
  /\ AnimsLeftAlone
  /\ SessionLeftAlone
  /\ SlackLeftAlone
  /\ BinaryLeftAlone

IntervalEvent ==
  /\ events < MaxIntervalEvents
  /\ events' = events + 1

\* the engine enters one of the three modes; no other mode is active
IntervalActivate ==
  /\ IntervalEvent
  /\ \E name \in IntervalModes, triggeringControl \in AnimTriggers :
       /\ anims.active \in {"none", name}
       /\ anims' = [animActivate(AnimStart, name, triggeringControl)
                      EXCEPT !.active = name]
       /\ input' = Input("activate", triggeringControl, Undefined)
  /\ UNCHANGED otherThanAnims

\* the engine leaves the active mode
IntervalDeactivate ==
  /\ anims.active # "none"
  /\ IntervalEvent
  /\ anims' = [animDeactivate(AnimStart, anims.active)
                 EXCEPT !.active = "none"]
  /\ input' = Input("deactivate", Undefined, Undefined)
  /\ UNCHANGED otherThanAnims

IntervalTurn ==
  /\ anims.active # "none"
  /\ IntervalEvent
  /\ \E control \in AnimControls, value \in AnimTurnValues :
       /\ anims' = animHandleKnobTurn(AnimStart, anims.active, control, value)
       /\ input' = Input("turn", control, value)
  /\ UNCHANGED otherThanAnims

IntervalPress ==
  /\ anims.active # "none"
  /\ IntervalEvent
  /\ \E control \in AnimControls :
       /\ anims' = animHandleButtonPress(AnimStart, anims.active, control)
       /\ input' = Input("press", control, MaxLed)
  /\ UNCHANGED otherThanAnims

\* a pending interval of the Fibonacci mode fires
FibFire ==
  /\ anims.fibonacci.timers # <<>>
  /\ anims.fired < MaxAnimFires
  /\ anims' = AnimFired(fibStep(AnimStart))
  /\ input' = Input("tick", Undefined, Undefined)
  /\ UNCHANGED <<events, otherThanAnims>>

IntervalNext ==
  \/ IntervalActivate
  \/ IntervalDeactivate
  \/ IntervalTurn
  \/ IntervalPress
  \/ PulseFire
  \/ RandomFire
  \/ FibFire

IntervalSpec == IntervalInit /\ [][IntervalNext]_vars


\* ------------------------------------------------------------------------
\* The binary games under activations, deactivations, presses, turns and
\* timers
\* ------------------------------------------------------------------------
MaxBinaryEvents == 3
MaxBinaryFires == 20

\* two bit knobs, the start button and the selector of the puzzle game
BinaryControls == {0, 1, START_BUTTON, 13}
BinaryTurnControls == {0}
BinaryTurnValues == {0, 127}

\* the steps Math.random() takes: the puzzle targets 1 and 3
BinaryRandoms == {1, 3}

\* the share of the time limit, in thousandths, that the clock leaves when
\* the puzzle timer runs: none, half
BinaryProgress == {0, 500}

\* the mode was activated, the puzzle game selected with knob 13 and
\* started with the start button: the first target is shown
PuzzleStarted(rnd) ==
  LET activated == binaryActivate(BinaryLoaded)
      selected == binaryHandleButtonPress(activated, 13, rnd)
      started == binaryHandleButtonPress(selected, START_BUTTON, rnd)
  IN [started EXCEPT !.active = TRUE, !.leds = NoWrites]

BinaryInit ==
  /\ SimonLoaded
  /\ events = 0
  /\ MainLeftAlone
  /\ EngineLeftAlone
  /\ MixerLeftAlone
  /\ LinkingLeftAlone
  /\ AnimsLeftAlone
  /\ SessionLeftAlone
  /\ SlackLeftAlone
  /\ \E rnd \in BinaryRandoms : binary = PuzzleStarted(rnd)

\* the LED writes of a step are those of its handler
BinaryStart == [binary EXCEPT !.leds = NoWrites]

BinaryEvent ==
  /\ events < MaxBinaryEvents
  /\ events' = events + 1

BinaryActivate ==
  /\ BinaryEvent
  /\ binary' = [binaryActivate(BinaryStart) EXCEPT !.active = TRUE]
  /\ input' = Input("activate", Undefined, Undefined)
  /\ UNCHANGED otherThanBinary

BinaryDeactivate ==
  /\ binary.active
  /\ BinaryEvent
  /\ binary' = [binaryDeactivate(BinaryStart) EXCEPT !.active = FALSE]
  /\ input' = Input("deactivate", Undefined, Undefined)
  /\ UNCHANGED otherThanBinary

BinaryPress ==
  /\ binary.active
  /\ BinaryEvent
  /\ \E control \in BinaryControls, rnd \in BinaryRandoms :
       /\ binary' = binaryHandleButtonPress(BinaryStart, control, rnd)
       /\ input' = Input("press", control, MaxLed)
  /\ UNCHANGED otherThanBinary

BinaryTurn ==
  /\ binary.active
  /\ BinaryEvent
  /\ \E control \in BinaryTurnControls, value \in BinaryTurnValues,
        rnd \in BinaryRandoms :
       /\ binary' = binaryHandleKnobTurn(BinaryStart, control, value, rnd)
       /\ input' = Input("turn", control, value)
  /\ UNCHANGED otherThanBinary

\* the pending timer that is due first fires
BinaryFire ==
  /\ binary.timers # <<>>
  /\ binary.fired < MaxBinaryFires
  /\ \E rnd \in BinaryRandoms, progress \in BinaryProgress :
       binary' = [binaryFireTimer(BinaryStart, rnd, progress)
                    EXCEPT !.fired = binary.fired + 1]
  /\ input' = Input("tick", Undefined, Undefined)
  /\ UNCHANGED <<events, otherThanBinary>>

BinaryNext ==
  \/ BinaryActivate
  \/ BinaryDeactivate
  \/ BinaryPress
  \/ BinaryTurn
  \/ BinaryFire

BinarySpec == BinaryInit /\ [][BinaryNext]_vars


\* ------------------------------------------------------------------------
\* Claims
\* ------------------------------------------------------------------------
\* the calls and events of the engine so far
EngineLog == engine.log

LongPressTimers ==
  {i \in 1 .. Len(main.timers) : main.timers[i].k = "resetAllKnobs"}

\* C3: only a press that is still held when the threshold is reached forces
\* the reset, and it forces it once: a press that was released before never
\* causes it. Every reset is forced by the press that holds a button at that
\* moment, and no press is in the log of the resets twice.
C3_LongPressOnly ==
  /\ [][Len(main'.resetLog) > Len(main.resetLog) =>
          \E c \in Controls :
            held[c].press = main'.resetLog[Len(main'.resetLog)]]_vars
  /\ [](\A i, j \in 1 .. Len(main.resetLog) :
          main.resetLog[i] = main.resetLog[j] => i = j)

\* C4: at every moment at most one long-press timer is pending.
C4_OneWatchdog == Cardinality(LongPressTimers) <= 1

\* C2: after deactivate returns no timer created by the Memory Game remains
\* pending (so the mode writes no LED, changes no state and schedules no
\* timer however far time advances): whenever the mode is not active, the
\* set of pending timers is empty.
C2_NoTimerAfterDeactivate == (~active) => timers = <<>>

\* C5: the sequence grows only at the start of a game (from 0 to 1) and when
\* a level is completed (the player's position reached the sequence length),
\* and then by exactly one step.
C5_GrowthOnlyByLevel ==
  [][Len(sequence') > Len(sequence) =>
       /\ Len(sequence') = Len(sequence) + 1
       /\ (Len(sequence) = 0 \/ userPosition = Len(sequence))]_vars

\* The 4x4 grid of the controls, for C6
Row(c) == c \div 4

Col(c) == c % 4

Dist(a, b) == IF a > b THEN a - b ELSE b - a

\* the neighbours of control p at difficulty d: the 4-neighbours, plus the
\* diagonals on Hard and Expert, plus the row and column wrap-around on Expert
GridNeighbors(p, d) ==
  {c \in Controls :
     \/ Dist(Row(c), Row(p)) + Dist(Col(c), Col(p)) = 1
     \/ /\ d \in {HARD, EXPERT}
        /\ Dist(Row(c), Row(p)) = 1
        /\ Dist(Col(c), Col(p)) = 1
     \/ /\ d = EXPERT
        /\ \/ Row(c) = Row(p) /\ Dist(Col(c), Col(p)) = 3
           \/ Col(c) = Col(p) /\ Dist(Row(c), Row(p)) = 3}

LastSteps(seq, n) == {seq[i] : i \in Max2(1, Len(seq) - n + 1) .. Len(seq)}

\* C6: every step appended after the first is a neighbour of the previous
\* step for the configured difficulty and none of the last 3 steps, unless
\* no such control exists; in every case it is a control in 0..15.
C6_StepIsValidNeighbor ==
  [][Len(sequence') = Len(sequence) + 1 =>
       LET newStep == sequence'[Len(sequence')]
           candidates ==
             IF Len(sequence) = 0 THEN {}
             ELSE GridNeighbors(sequence[Len(sequence)], difficulty)
                  \ LastSteps(sequence, 3)
       IN /\ newStep \in Controls
          /\ SubSeq(sequence', 1, Len(sequence)) = sequence
          /\ candidates # {} => newStep \in candidates]_vars

\* C6 witness: on Expert a step was appended that is the column wrap-around
\* neighbour of the previous one, and one that is a diagonal neighbour
C6_Witness ==
  /\ difficulty = EXPERT
  /\ Len(sequence) = 3
  /\ sequence[1] = 0
  /\ sequence[2] = 12
  /\ sequence[3] = 9

\* C7: a wrong press ends the game exactly when the mistakes made exceed the
\* allowance of the difficulty (2 on Easy, 1 on Medium, 0 on Hard and
\* Expert): the first m wrong presses leave the game in WAITING_FOR_INPUT,
\* the (m+1)-th moves it to GAME_OVER.
C7_MistakeAllowance ==
  /\ [](active => mistakesAllowed = difficultySettings[difficulty].mistakesAllowed)
  /\ [](active /\ difficulty = EASY => mistakesAllowed = 2)
  /\ [][mistakesMade' = mistakesMade + 1 =>
          /\ mistakesMade' <= mistakesAllowed => state' = WAITING_FOR_INPUT
          /\ mistakesMade' = mistakesAllowed + 1 => state' = GAME_OVER]_vars

\* C7 witness: on Easy the third wrong press has ended the game
C7_Witness ==
  /\ active
  /\ difficulty = EASY
  /\ mistakesMade = 3
  /\ state = GAME_OVER

\* C8: GAME_OVER is left only towards IDLE (a press, or the deactivation):
\* it is never followed by a playback or by WAITING_FOR_INPUT directly.
C8_GameOverOnlyToIdle ==
  [][state = GAME_OVER => state' \in {GAME_OVER, IDLE}]_vars

PlaybackTimers ==
  {i \in 1 .. Len(timers) : timers[i].k \in {"showStep", "stepOff"}}

\* C9: playback is fully serialized: at most one playback runs at a time,
\* no press or turn during DISPLAYING_SEQUENCE changes the position, the
\* mistakes, the sequence or the game state, and WAITING_FOR_INPUT is entered
\* only by the playback that has shown every step.
C9_PlaybackSerialized ==
  /\ [](Cardinality(PlaybackTimers) <= 1)
  /\ [][(state = DISPLAYING_SEQUENCE /\ events' # events /\ active /\ active')
          => UNCHANGED <<sequence, userPosition, mistakesMade, state>>]_vars
  /\ [][(state # WAITING_FOR_INPUT /\ state' = WAITING_FOR_INPUT)
          => /\ state = DISPLAYING_SEQUENCE
             /\ timers # <<>>
             /\ timers[NextTimerIndex(timers)].k = "showStep"
             /\ timers[NextTimerIndex(timers)].a >= Len(sequence)]_vars

ErrorReplayPending ==
  \E i \in 1 .. Len(timers) :
    timers[i].k \in {"errOff", "flashWrong", "errDone", "displaySequence"}

\* C10: after a tolerated wrong press the sequence replayed is exactly the
\* sequence that existed at the wrong press: while the error animation and
\* the replay it schedules are pending, the sequence does not change, unless
\* the player starts a new game, which empties it.
C10_ReplaySameSequence ==
  [][(active /\ active' /\ ErrorReplayPending /\ sequence' # <<>>)
       => sequence' = sequence]_vars

\* s is a prefix of t
IsPrefix(s, t) == Len(s) <= Len(t) /\ SubSeq(t, 1, Len(s)) = s

\* a step that starts a game (startGame) or activates the mode
StartsGame ==
  /\ sequence' = <<>>
  /\ score' = 0
  /\ \/ state' = LEVEL_COMPLETE /\ mistakesMade' = 0
     \/ state' = IDLE /\ active' /\ ~active

\* C11: within one game the sequence is only appended to: every step leaves
\* the old sequence a prefix of the new one, unless the step starts a game
\* or activates the mode; nothing removes, replaces or reorders an element
C11_AppendOnly == [][IsPrefix(sequence, sequence') \/ StartsGame]_vars

\* a second step was appended to the first in a running game
C11_Witness ==
  active /\ Len(sequence) = 2 /\ state = WAITING_FOR_INPUT /\ userPosition = 0

\* floor(v / 32): the bucket of the 4 levels a turn value falls in
Bucket(v) == v \div 32

\* the multiplier and the allowed mistakes are the table entry of the level
SettingsOfDifficulty ==
  /\ speedMultiplier = difficultySettings[difficulty].speedMultiplier
  /\ mistakesAllowed = difficultySettings[difficulty].mistakesAllowed

\* C12: a turn of control 0 in IDLE selects the level floor(v / 32) and sets
\* the multiplier and the allowed mistakes to its table entry; any other
\* turn changes none of the three; and in every reachable state the
\* multiplier and the allowed mistakes are the table entry of the difficulty
C12_DifficultySelection ==
  /\ [][(input'.op = "turn" /\ input'.control = 0 /\ state = IDLE) =>
          /\ difficulty' = Bucket(input'.value)
          /\ speedMultiplier' = difficultySettings[difficulty'].speedMultiplier
          /\ mistakesAllowed' = difficultySettings[difficulty'].mistakesAllowed]_vars
  /\ [][(input'.op = "turn" /\ ~(input'.control = 0 /\ state = IDLE)) =>
          UNCHANGED <<difficulty, speedMultiplier, mistakesAllowed>>]_vars
  /\ []SettingsOfDifficulty

\* the knobs that were given a color
ColoredKnobs(m) == {m.knobColors[i].key : i \in 1 .. Len(m.knobColors)}

\* any two knobs of one color group show the same value
GroupsUniform(m) ==
  \A a, b \in ColoredKnobs(m) :
    KnobColor(m, a) = KnobColor(m, b) => m.shown[a] = m.shown[b]

\* C13: after every tick of the animation loop, any two controls that were
\* assigned the same source color have the same last-written LED value,
\* whatever colors were applied, groups turned, configurations changed and
\* animations stopped before.
C13_GroupsSynchronized == [][input'.op = "tick" => GroupsUniform(mixer')]_vars

\* a tick has just moved a group of two knobs away from its source color
C13_Witness ==
  /\ input.op = "tick"
  /\ KnobColor(mixer, 4) # Undefined
  /\ KnobColor(mixer, 4) = KnobColor(mixer, 5)
  /\ MapHas(mixer.activeAnimations, KnobColor(mixer, 4))
  /\ mixer.shown[4] # KnobColor(mixer, 4)

Animated(m, colorKey) == MapHas(m.activeAnimations, colorKey)

\* the colors whose group is animated
AnimatedColors(m) ==
  {m.activeAnimations[i].key : i \in 1 .. Len(m.activeAnimations)}

\* the knob has a color and the group of that color is not animated
AtRest(m, k) == KnobColor(m, k) # Undefined /\ ~Animated(m, KnobColor(m, k))

\* the step handles an event that calls stopAnimationForColor(colorKey)
\* while the group is animated: a press of knob 0 or 2 with that mixed color,
\* a press or a turn of a knob of the group
StopsGroup(colorKey) ==
  /\ Animated(mixer, colorKey)
  /\ ~mixer.isAnimationConfigModeActive
  /\ \/ /\ input'.op = "press"
        /\ input'.control \in {COLOR_SELECTOR_KNOB_R, COLOR_SELECTOR_KNOB_B}
        /\ mixer.mixedColorValue = colorKey
     \/ /\ input'.op \in {"press", "turn"}
        /\ input'.control \notin CONTROL_KNOBS
        /\ KnobColor(mixer, input'.control) = colorKey

\* the step handles a press that applies the mixed color: the animation of
\* that color is started anew
StartsGroup(colorKey) ==
  /\ input'.op = "press"
  /\ input'.control \notin CONTROL_KNOBS
  /\ ~mixer.isAnimationConfigModeActive
  /\ mixer.mixedColorValue = colorKey

\* the step handles a turn that moves the group of knob k into the group of
\* the value turned to, which is animated
JoinsAnimatedGroup(k) ==
  /\ input'.op = "turn"
  /\ KnobColor(mixer, input'.control) = KnobColor(mixer, k)
  /\ KnobColor(mixer', k) = input'.value
  /\ Animated(mixer, input'.value)

\* a stop writes the original color to every knob of the group, and the
\* group is animated afterwards only if the same press started it anew
StopRestores ==
  \A colorKey \in AnimatedColors(mixer) :
    StopsGroup(colorKey) =>
      /\ \A k \in GroupOf(mixer, colorKey) :
           SeqContains(mixer'.leds, <<k, colorKey>>)
      /\ Animated(mixer', colorKey) => StartsGroup(colorKey)

\* a tick leaves the LEDs of the knobs at rest alone
TickLeavesRest ==
  input'.op = "tick" =>
    \A k \in ColoredKnobs(mixer) :
      AtRest(mixer, k) => mixer'.shown[k] = mixer.shown[k]

\* knob k, at rest or stopped by this step, is animated after the step
Awakes(k) ==
  /\ AtRest(mixer, k) \/ StopsGroup(KnobColor(mixer, k))
  /\ KnobColor(mixer', k) # Undefined
  /\ ~AtRest(mixer', k)

\* C14 (as amended): whenever the animation of a color group is stopped, every
\* control of the group receives an LED write of the group's original color
\* and the group is no longer animated; no later tick changes the LEDs of
\* those controls until a new animation is started for them or a turn moves
\* them into a group that is being animated.
C14_StopRestoresAndRests ==
  /\ [][StopRestores]_vars
  /\ [][TickLeavesRest]_vars
  /\ [][\A k \in ColoredKnobs(mixer) :
          Awakes(k) =>
            StartsGroup(KnobColor(mixer', k)) \/ JoinsAnimatedGroup(k)]_vars

\* C14 (as stated): the same, the controls staying untouched by the ticks
\* until a new animation is started for them, and in no other case.
C14_AsStated ==
  /\ [][StopRestores]_vars
  /\ [][TickLeavesRest]_vars
  /\ [][\A k \in ColoredKnobs(mixer) :
          Awakes(k) => StartsGroup(KnobColor(mixer', k))]_vars

\* a press of knob 0 has just stopped the group of knobs 4 and 5
C14_Witness ==
  /\ input = Input("press", COLOR_SELECTOR_KNOB_R, MaxLed)
  /\ AtRest(mixer, 4)
  /\ KnobColor(mixer, 4) = KnobColor(mixer, 5)
  /\ SeqContains(mixer.leds, <<4, KnobColor(mixer, 4)>>)
  /\ SeqContains(mixer.leds, <<5, KnobColor(mixer, 5)>>)

\* C15: at every moment at most one animation interval exists; none exists
\* while no knob was given a color since the activation; and whenever a
\* color group is animated that one interval is pending and its handle is
\* kept, so that one tick drives all the animated groups.
C15_SingleInterval ==
  /\ mixer.intervals <= 1
  /\ mixer.knobColors = <<>> => mixer.intervals = 0
  /\ mixer.activeAnimations # <<>> =>
       mixer.intervals = 1 /\ mixer.animationIntervalId # "null"

\* two color groups are animated at once
C15_Witness ==
  /\ Len(mixer.activeAnimations) = 2
  /\ mixer.intervals = 1
  /\ mixer.now > 0

\* C16: once no color group remains animated the shared interval stops
\* itself (a tick that finds no animation cancels the interval), and no tick
\* of the interval runs while the set of animated groups is empty.
C16_NoIdleTick ==
  /\ [][(input'.op = "tick" /\ mixer'.activeAnimations = <<>>) =>
          mixer'.intervals = 0]_vars
  /\ [][input'.op = "tick" => mixer.activeAnimations # <<>>]_vars

\* the mode between a deactivate and the next activate: no interval, no
\* handle, no color group, no animation
Quiet(m) ==
  /\ m.intervals = 0
  /\ m.animationIntervalId = "null"
  /\ m.knobColors = <<>>
  /\ m.activeAnimations = <<>>

\* C17: after deactivate returns, the animation interval is cancelled and no
\* color group or animation remains, whatever state the mode was deactivated
\* in; until the next activate no tick runs and no LED is written, however
\* far time advances.
C17_QuietAfterDeactivate ==
  /\ [][(mixer.active /\ ~mixer'.active) => Quiet(mixer')]_vars
  /\ [](~mixer.active => Quiet(mixer))
  /\ [][(~mixer.active /\ ~mixer'.active) =>
          /\ input'.op # "tick"
          /\ mixer'.shown = mixer.shown]_vars

\* the mode was deactivated after its interval had ticked
C17_Witness ==
  /\ ~mixer.active
  /\ mixer.now > 0
  /\ mixer.intervals = 0
  /\ \A c \in 0 .. 15 : mixer.shown[c] = 0

\* the step handles a press of a knob other than the control knobs while
\* the configuration mode is off
AppliesColor ==
  /\ input'.op = "press"
  /\ input'.control \notin CONTROL_KNOBS
  /\ ~mixer.isAnimationConfigModeActive

\* no knob has two entries in knobColors
OneGroupPerKnob(m) ==
  \A i, j \in 1 .. Len(m.knobColors) :
    m.knobColors[i].key = m.knobColors[j].key => i = j

\* the animation of the group colorKey is the same in both states
SameAnimation(m1, m2, colorKey) ==
  /\ Animated(m1, colorKey) <=> Animated(m2, colorKey)
  /\ Animated(m1, colorKey) =>
       MapGet(m1.activeAnimations, colorKey)
         = MapGet(m2.activeAnimations, colorKey)

\* C18: in normal mode a press of a control k in 4..15 assigns the current
\* mixed color to k and starts the animation of that color's group anew, from
\* the present time; the assigned color of every other control is unchanged,
\* every control belongs to at most one group, and the animation of every
\* group other than k's previous one and k's new one is unchanged.
C18_ApplyFrame ==
  [][AppliesColor =>
       LET k == input'.control
           colorToApply == mixer.mixedColorValue
       IN /\ KnobColor(mixer', k) = colorToApply
          /\ Animated(mixer', colorToApply)
          /\ MapGet(mixer'.activeAnimations, colorToApply).startTime
               = mixer.now
          /\ mixer'.intervals = 1
          /\ \A j \in (ColoredKnobs(mixer) \cup ColoredKnobs(mixer')) \ {k} :
               KnobColor(mixer', j) = KnobColor(mixer, j)
          /\ OneGroupPerKnob(mixer')
          /\ \A c \in (AnimatedColors(mixer) \cup AnimatedColors(mixer'))
                        \ {KnobColor(mixer, k), colorToApply} :
               SameAnimation(mixer, mixer', c)]_vars

\* knob 5 was just given a color other than that of knob 4, whose group is
\* still animated
C18_Witness ==
  /\ input = Input("press", 5, MaxLed)
  /\ KnobColor(mixer, 4) # Undefined
  /\ KnobColor(mixer, 4) # KnobColor(mixer, 5)
  /\ Animated(mixer, KnobColor(mixer, 4))
  /\ Animated(mixer, KnobColor(mixer, 5))
  /\ mixer.now > 0

\* the biased average: the floor of the average of the components, shifted
\* by 0, 42 or 85 modulo 127 when red, green or blue is strictly dominant
BiasedAverage(r, g, b) ==
  LET floored == (r + g + b) \div 3
  IN CASE r > g /\ r > b -> (floored + 0) % 127
       [] g > r /\ g > b -> (floored + 42) % 127
       [] b > r /\ b > g -> (floored + 85) % 127
       [] OTHER -> floored

\* C19: in every reachable state the mixed color value is the biased average
\* of the current R, G and B component values, and it is an integer in
\* 0..127.
C19_MixedColor ==
  /\ mixer.mixedColorValue
       = BiasedAverage(mixer.redValue, mixer.greenValue, mixer.blueValue)
  /\ mixer.mixedColorValue \in 0 .. 127

\* green was turned to dominate: the average 42 is shifted by 42
C19_Witness ==
  /\ input = Input("turn", COLOR_SELECTOR_KNOB_G, 127)
  /\ mixer.redValue = 0
  /\ mixer.blueValue = 0
  /\ mixer.mixedColorValue = 84

\* d is a destination of the source s
Linked(m, s, d) == SeqContains(Destinations(m, s), d)

\* the links of the mode: the pairs <<source, destination>>
Links(m) ==
  UNION {{<<m.linkedKnobs[i].key, m.linkedKnobs[i].dests[j]>> :
            j \in 1 .. Len(m.linkedKnobs[i].dests)} :
          i \in 1 .. Len(m.linkedKnobs)}

\* the step handles the press that commits a link from the stored source
\* to another control, the one pressed
CommitsLink ==
  /\ input'.op = "press"
  /\ linking.firstKnob # NoKnob
  /\ linking.firstKnob.control # input'.control

\* C20: while the mode is active, a press of a control d that follows the
\* press that stored another control s as the link source makes d a
\* destination of s; d stays one until the mode is deactivated or activated
\* again or d is linked to another source; and every turn of s to a value v
\* sends an LED write of v to each of its destinations d within the handling
\* of that turn.
C20_LinkedTurnWrites ==
  /\ [][CommitsLink =>
          Linked(linking', linking.firstKnob.control, input'.control)]_vars
  /\ [][\A link \in Links(linking) :
          (/\ input'.op \in {"press", "turn"}
           /\ ~(/\ CommitsLink
                /\ input'.control = link[2]
                /\ linking.firstKnob.control # link[1]))
            => link \in Links(linking')]_vars
  /\ [][\A link \in Links(linking) :
          (input'.op = "turn" /\ input'.control = link[1])
            => SeqContains(linking'.leds, <<link[2], input'.value>>)]_vars

\* control 0 was linked to control 1 and has just been turned to 64
C20_Witness ==
  /\ linking.active
  /\ input = Input("turn", 0, 64)
  /\ Linked(linking, 0, 1)
  /\ SeqContains(linking.leds, <<1, 64>>)

\* C21: every timer the Linking mode creates while handling a press is
\* cancelled by the time deactivate returns: while the mode is not active no
\* callback of the mode is pending, and no step makes the mode write an LED.
C21_LinkTimersCancelled ==
  /\ [](~linking.active => linking.timers = <<>>)
  /\ [][(~linking.active /\ ~linking'.active) =>
          linking'.leds = NoWrites]_vars

\* the timeouts and intervals of a mode that are pending
PendingTimers(name) == anims[name].timers

\* C22: for Ripple, Pulse, Random and Wave, under every sequence of turns,
\* presses and timer firings, no timeout or interval of a mode that is not
\* active is pending, so that no callback of a mode runs (and writes an LED
\* or creates a timer) after the mode's deactivate has returned.
C22_NoTimerOutlivesDeactivate ==
  /\ [](\A name \in AnimModes :
          name # anims.active => PendingTimers(name) = <<>>)
  /\ [][input'.op = "tick" =>
          /\ anims.active # "none"
          /\ \A name \in AnimModes :
               PendingTimers(name) # <<>> => name = anims.active]_vars

\* a mode was deactivated after an event it handled and two firings
C22_Witness ==
  /\ input.op = "deactivate"
  /\ anims.active = "none"
  /\ anims.handled
  /\ anims.fired >= 2
  /\ events >= 3

\* the game state of a first activation
FreshGame ==
  /\ state = IDLE
  /\ sequence = <<>>
  /\ userPosition = 0
  /\ mistakesMade = 0
  /\ difficulty = EASY
  /\ score = 0

\* a session after the first in which no event has been delivered yet
Reentered ==
  /\ session.tracked
  /\ session.activations >= 2
  /\ session.quiet
  /\ active

\* C23: activating the Memory Game again after a deactivate yields the game
\* state of a first activation with the high score preserved, and until the
\* first event of the new session is delivered nothing left over from the
\* previous session changes it, starts a game or plays a sequence.
C23_CleanReentry ==
  /\ [](Reentered => FreshGame)
  /\ [][(~active /\ active') => highScore' = highScore]_vars

\* in a first session the game state stays that of the activation until the
\* first event (holds under ReentrySpec)
FirstSessionClean ==
  (session.tracked /\ session.activations = 1 /\ session.quiet /\ active)
    => FreshGame

\* a record of a mode without the LED messages of the call that made it
Silent(m) == [m EXCEPT !.leds = NoWrites]

\* deactivate of the Memory Game called now, and once more: no timer is
\* left and the second call changes nothing
SimonDeactivateTwice ==
  LET once == deactivate(Start)
  IN /\ once.timers = <<>>
     /\ Silent(deactivate(once)) = Silent(once)

MixerDeactivateTwice ==
  LET once == mixerDeactivate(MixerStart)
  IN /\ once.intervals = 0
     /\ Silent(mixerDeactivate(once)) = Silent(once)

PulseDeactivateTwice ==
  LET once == pulseDeactivate(AnimStart)
  IN /\ once.pulse.timers = <<>>
     /\ Silent(pulseDeactivate(once)) = Silent(once)

RippleDeactivateTwice ==
  LET once == rippleDeactivate(AnimStart)
  IN /\ once.ripple.timers = <<>>
     /\ Silent(rippleDeactivate(once)) = Silent(once)

\* C24: for the Memory Game, the Color Mixer, Pulse and Ripple, deactivate
\* called on a mode that was never activated or called twice in a row leaves
\* no timer pending and leaves the mode in the state of a single deactivate.
C24_DeactivateIdempotent ==
  /\ SimonDeactivateTwice
  /\ MixerDeactivateTwice
  /\ PulseDeactivateTwice
  /\ RippleDeactivateTwice

\* the brightness of the call clamped to 0..127
Clamped(v) == IF v < 0 THEN 0 ELSE IF v > MaxLed THEN MaxLed ELSE v

\* C25: for every integer brightness passed to setLed (of interface.ts or of
\* midiUtils.ts) with a valid control, exactly one LED message is emitted,
\* for that control, and its brightness is the input clamped to 0..127.
C25_SetLedClamps ==
  input.op \in {"setLed", "utilsSetLed"} =>
    leds = <<<<input.control, Clamped(input.value)>>>>

\* a call with a brightness above 127 sent one message of brightness 127
C25_Witness ==
  /\ input.op = "setLed"
  /\ input.value > MaxLed
  /\ leds = <<<<input.control, MaxLed>>>>

\* the step activated Pulse or Ripple without a triggering control
ActivatedWithoutControl ==
  /\ input'.op = "activate"
  /\ input'.control = Undefined
  /\ anims'.active \in {PULSE, RIPPLE}

\* C26: Pulse or Ripple activated without a triggering control falls back to
\* control 0 as its pulsing or center control and is then in the state an
\* activation with triggering control 0 produces, LED messages included.
C26_FallbackControl ==
  [][ActivatedWithoutControl =>
       /\ anims'.active = PULSE => anims'.pulse.activeControl = 0
       /\ anims'.active = RIPPLE => anims'.ripple.centerControl = 0
       /\ anims' = [animActivate(AnimStart, anims'.active, 0)
                      EXCEPT !.active = anims'.active]]_vars

\* Pulse was activated without a control and pulses control 0
C26_Witness ==
  /\ input.op = "activate"
  /\ input.control = Undefined
  /\ anims.active = PULSE
  /\ anims.pulse.activeControl = 0
  /\ anims.pulse.timers # <<>>

\* the step dispatches the event at the head of the queue
Dispatches == Len(engine'.queue) < Len(engine.queue)

\* the step dispatches an event whose handler throws
DispatchesFault == Dispatches /\ Len(engine'.faults) > Len(engine.faults)

\* the places in the log of the handler calls that threw
Faults == {engine.faults[i] : i \in 1 .. Len(engine.faults)}

\* C27: when the handler of the active mode throws, the error is caught at
\* the dispatch boundary: the event is not handled, the active mode stays,
\* no switch is requested, the watchdog is armed or disarmed as it is for a
\* handler that returns, and the engine is ready for the next event, which
\* goes to the same mode.
C27_FaultCaught ==
  /\ [][DispatchesFault =>
          /\ ~engine'.handled
          /\ engine'.activeMode = engine.activeMode
          /\ engine'.requests = engine.requests
          /\ \A outcome \in Outcomes \ {"throws"} :
               engine'.watchdog =
                 dispatch(engine, Head(engine.queue), outcome).watchdog
          /\ DispatchAllowed(engine')]_vars
  /\ [](\A i \in Faults :
          i < Len(EngineLog) =>
            \/ /\ EngineLog[i + 1].op \in EventOps
               /\ EngineLog[i + 1].mode = EngineLog[i].mode
            \/ EngineLog[i + 1] =
                 Call("deactivate", EngineLog[i].mode, Undefined))

\* the handler of a press threw in the Memory Game, the watchdog was armed
\* for its control, and the next event was handled by the Memory Game
C27_Witness ==
  /\ Len(EngineLog) - 1 \in Faults
  /\ EngineLog[Len(EngineLog) - 1] = Call("press", "simon", 0)
  /\ EngineLog[Len(EngineLog)] = Call("turn", "simon", 0)
  /\ Len(EngineLog) \notin Faults
  /\ engine.handled
  /\ engine.watchdog = 0

\* the step is a call of switchTo with a name no mode is registered under
RequestsUnknown ==
  /\ Len(engine'.requests) = Len(engine.requests) + 1
  /\ engine'.requests[Len(engine'.requests)] \notin ModeNames

\* C28: a switch request naming a mode that is not registered is a no-op: the
\* active mode is unchanged, no switch is started and neither deactivate nor
\* activate of any mode is called (the log of calls, through which alone LED
\* writes of a switch arise, is unchanged).
C28_UnknownModeNoOp ==
  [][RequestsUnknown =>
       /\ engine'.activeMode = engine.activeMode
       /\ engine'.pc = engine.pc
       /\ engine'.target = engine.target
       /\ engine'.watchdog = engine.watchdog
       /\ EngineLog' = EngineLog]_vars

\* an unknown mode was requested while the Memory Game was active, and the
\* Memory Game is still the active mode, idle
C28_Witness ==
  /\ engine.requests # <<>>
  /\ engine.requests[Len(engine.requests)] = UnknownMode
  /\ engine.activeMode = "simon"
  /\ engine.pc = "idle"
  /\ EngineLog[Len(EngineLog)] = Call("activated", "simon", Undefined)

\* the step dispatches the event ev to the Game Selection mode, whose
\* handler returns
SelectHandles(op, control) ==
  /\ Dispatches
  /\ ~DispatchesFault
  /\ engine.activeMode = GAME_SELECT
  /\ Head(engine.queue) = [op |-> op, control |-> control]

\* C30: in Mode-Select a press of a control with an entry in the game map
\* requests a switch to the mode mapped to that control, once, and is
\* reported handled; a press of an unassigned control requests no switch and
\* is reported not handled; a turn requests no switch.
C30_SelectRequests ==
  [][\A control \in EngineControls :
       /\ (SelectHandles("press", control) /\ control \in GameControls) =>
            /\ engine'.requests = Append(engine.requests, GAME_MAP[control])
            /\ engine'.handled
       /\ (SelectHandles("press", control) /\ control \in 10 .. 14) =>
            /\ engine'.requests = engine.requests
            /\ ~engine'.handled
       /\ SelectHandles("turn", control) =>
            /\ engine'.requests = engine.requests
            /\ ~engine'.handled]_vars

\* the press of control 15 in Mode-Select requested the Linking mode, and
\* nothing else was requested
C30_Witness ==
  /\ engine.requests = <<"normal_linking">>
  /\ engine.handled
  /\ engine.pc = "deactivating"
  /\ EngineLog[Len(EngineLog) - 1] = Call("press", GAME_SELECT, 15)

\* the calls of the hook that have returned or thrown
Finished == {p \in 1 .. Len(slack.presses) : ~slack.presses[p].pending}

\* C29: every press of the photo-upload mode whose call of the hook has
\* ended has written exactly one color to the pressed knob, green exactly
\* when the upload succeeded, and no failure has left the press as an error
\* nobody caught
C29_OneReportPerPress ==
  /\ slack.rejected = 0
  /\ \A p \in Finished :
       /\ Len(slack.presses[p].writes) = 1
       /\ slack.presses[p].writes[1] = Colors.GREEN
            <=> Succeeds(slack.presses[p].env)

\* the same for the presses made with the token set
C29_ReportWithToken ==
  \A p \in Finished :
    slack.presses[p].env.token =>
      /\ Len(slack.presses[p].writes) = 1
      /\ slack.presses[p].writes[1] = Colors.GREEN
           <=> Succeeds(slack.presses[p].env)

\* a press with the token set has ended with a failed upload, another with
\* an upload that succeeded
C29_WithTokenWitness ==
  /\ \E p \in Finished : Succeeds(slack.presses[p].env)
  /\ \E p \in Finished :
       slack.presses[p].env.token /\ slack.presses[p].env.upload = "refused"
         /\ slack.presses[p].env.image /\ slack.presses[p].env.readable

\* C31: whenever the Memory Game waits for input the sequence is not empty
\* and the player's position is below its length, so the control expected
\* from the next press is defined
C31_ExpectedDefined ==
  state = WAITING_FOR_INPUT =>
    /\ Len(sequence) > 0
    /\ userPosition < Len(sequence)

\* the game waits for input after a correct press that did not end the level
C31_Witness ==
  /\ state = WAITING_FOR_INPUT
  /\ userPosition > 0
  /\ userPosition < Len(sequence)

\* the value of the last LED message to control d among the messages of a
\* step, Undefined when the step sent none to d
LastWriteTo(l, d) ==
  LET at == {i \in 1 .. Len(l) : l[i][1] = d}
  IN IF at = {} THEN Undefined
     ELSE l[CHOOSE i \in at : \A j \in at : j <= i][2]

\* after the step the LED of destination d shows the value of source s: the
\* step wrote nothing else to d last, and it did write the value when the
\* link is new or the value of s has changed
ShowsSource(s, d) ==
  /\ LastWriteTo(linking'.leds, d) \in {Undefined, ValueOrZero(linking', s)}
  /\ (\/ <<s, d>> \notin Links(linking)
      \/ d \notin linking.fresh
      \/ ValueOrZero(linking', s) # ValueOrZero(linking, s))
       => LastWriteTo(linking'.leds, d) = ValueOrZero(linking', s)

\* C32: from the press that links control d to source s until d itself is
\* turned or pressed, the last LED value written to d is the most recent
\* value of s (the value stored at the commit, then each later turn value of
\* s); no timer of the mode writes another value to d in between
C32_LinkedShowsSource ==
  [][\A link \in Links(linking') :
       link[2] \in linking'.fresh => ShowsSource(link[1], link[2])]_vars

\* the same for the steps that handle a press or a turn
C32_EventsShowSource ==
  [][input'.op \in {"press", "turn"} =>
       \A link \in Links(linking') :
         link[2] \in linking'.fresh => ShowsSource(link[1], link[2])]_vars

\* source 0 was turned to 64 while its destination 1 was neither turned nor
\* pressed since the link
C32_EventsWitness ==
  /\ input = Input("turn", 0, 64)
  /\ Linked(linking, 0, 1)
  /\ 1 \in linking.fresh
  /\ LastWriteTo(linking.leds, 1) = 64

\* the sources that have control d in their destination list
SourcesOf(m, d) == {link[1] : link \in {l \in Links(m) : l[2] = d}}

\* every control is a destination of at most one source, no control is
\* linked to itself, and no destination list holds a control twice
LinksWellFormed ==
  /\ \A d \in Controls : Cardinality(SourcesOf(linking, d)) <= 1
  /\ \A link \in Links(linking) : link[1] # link[2]
  /\ \A i \in 1 .. Len(linking.linkedKnobs) :
       LET dests == linking.linkedKnobs[i].dests
       IN \A j, k \in 1 .. Len(dests) : dests[j] = dests[k] => j = k

\* C33: in every reachable state each control is a destination of at most
\* one source, no control is linked to itself and no destination list holds
\* a control twice; pressing the pending source again cancels the pending
\* link and creates no link
C33_LinksWellFormed ==
  /\ []LinksWellFormed
  /\ [][(/\ input'.op = "press"
         /\ linking.firstKnob # NoKnob
         /\ linking.firstKnob.control = input'.control)
          => /\ linking'.firstKnob = NoKnob
             /\ linking'.linkedKnobs = linking.linkedKnobs]_vars

\* control 2 was a destination of control 0 and has been linked to control 1
\* instead, which left control 0 with an empty list
C33_Witness ==
  /\ input = Input("press", 2, MaxLed)
  /\ Linked(linking, 1, 2)
  /\ MapHas(linking.linkedKnobs, 0)
  /\ Destinations(linking, 0) = <<>>

\* the step handles, in normal mode, the turn of a knob of 4..15 that has an
\* assigned color
TurnsGroup ==
  /\ input'.op = "turn"
  /\ input'.control \in 4 .. 15
  /\ mixer.active
  /\ ~mixer.isAnimationConfigModeActive
  /\ KnobColor(mixer, input'.control) # Undefined

\* C34: in normal mode the turn of a control k of 4..15 that has the
\* assigned color c to the value v moves the whole group: every control
\* that had color c has the assigned color v and a last LED write of v, no
\* animation keyed by c remains, and controls that shared a color before
\* the turn share one after it
C34_TurnMovesGroup ==
  [][TurnsGroup =>
       LET c == KnobColor(mixer, input'.control)
           v == input'.value
       IN /\ \A j \in GroupOf(mixer, c) :
               /\ KnobColor(mixer', j) = v
               /\ mixer'.shown[j] = v
               /\ LastWriteTo(mixer'.leds, j) = v
          /\ ~Animated(mixer', c)
          /\ \A i, j \in ColoredKnobs(mixer) :
               KnobColor(mixer, i) = KnobColor(mixer, j)
                 => KnobColor(mixer', i) = KnobColor(mixer', j)]_vars

\* the turn of knob 5 to 127 has moved the animated group of knobs 4 and 5,
\* which had another color and is at rest now
C34_Witness ==
  /\ input = Input("turn", 5, 127)
  /\ KnobColor(mixer, 4) = 127
  /\ KnobColor(mixer, 5) = 127
  /\ SeqContains(mixer.leds, <<4, 0>>)
  /\ LastWriteTo(mixer.leds, 4) = 127
  /\ ~Animated(mixer, 127)
  /\ mixer.intervals = 1

\* the step handles an event while the animation-config mode is active
InConfigMode(op) ==
  /\ input'.op = op
  /\ mixer.active
  /\ mixer.isAnimationConfigModeActive

\* C35: while the animation-config mode is active no turn changes the red,
\* green or blue component or the mixed color, and no press of a control
\* other than control 3 changes the assigned color of a control, starts or
\* stops an animation or writes the LED of a control of 4..15
C35_ConfigModeFrame ==
  /\ [][InConfigMode("turn") =>
          /\ mixer'.redValue = mixer.redValue
          /\ mixer'.greenValue = mixer.greenValue
          /\ mixer'.blueValue = mixer.blueValue
          /\ mixer'.mixedColorValue = mixer.mixedColorValue]_vars
  /\ [][(InConfigMode("press") /\ input'.control # TOGGLE_KNOB) =>
          /\ mixer'.knobColors = mixer.knobColors
          /\ mixer'.activeAnimations = mixer.activeAnimations
          /\ mixer'.intervals = mixer.intervals
          /\ \A k \in 4 .. 15 : LastWriteTo(mixer'.leds, k) = Undefined]_vars

\* in the configuration mode, with the group of the mixed color animated,
\* knob 0 has just been pressed
C35_Witness ==
  /\ input = Input("press", COLOR_SELECTOR_KNOB_R, MaxLed)
  /\ mixer.isAnimationConfigModeActive
  /\ Animated(mixer, mixer.mixedColorValue)
  /\ KnobColor(mixer, 4) = mixer.mixedColorValue

\* an easing index, a strategy index and a duration the mode can use
ValidParameters(easing, strategy, duration) ==
  /\ easing \in 0 .. 6
  /\ EaseExists(easing)
  /\ strategy \in 0 .. 1
  /\ duration \in MIN_ANIMATION_DURATION .. MAX_ANIMATION_DURATION

\* what the three selectors store for each value a turn can carry
SelectorsValid ==
  \A value \in 0 .. MAX_LED_VALUE :
    ValidParameters(value % NumAnimationFunctions, value % NumStrategies,
                    DurationOf(value))

\* every stored configuration and every active animation is valid
ConfigurationsValid ==
  /\ SelectorsValid
  /\ \A i \in 1 .. Len(mixer.colorAnimationConfig) :
       LET config == mixer.colorAnimationConfig[i]
       IN ValidParameters(config.easingIndex, config.strategyIndex,
                          config.duration)
  /\ \A i \in 1 .. Len(mixer.activeAnimations) :
       LET anim == mixer.activeAnimations[i]
       IN ValidParameters(anim.animIndex, anim.strategyIndex, anim.duration)

\* C36: in every reachable state every stored animation configuration and
\* every active animation has an easing index in 0..6, which names an easing
\* curve, a strategy index in 0..1 and a duration in 500..10000 ms; the
\* animation loop removes no animation
C36_ParametersValid ==
  /\ []ConfigurationsValid
  /\ [][input'.op = "tick" =>
          AnimatedColors(mixer') = AnimatedColors(mixer)]_vars

\* the interval has ticked for an animation that was given the sine pulse
\* and the shortest duration in the configuration mode
C36_Witness ==
  /\ input.op = "tick"
  /\ \E i \in 1 .. Len(mixer.activeAnimations) :
       /\ mixer.activeAnimations[i].animIndex = sinePulse
       /\ mixer.activeAnimations[i].duration = MIN_ANIMATION_DURATION
  /\ \E i \in 1 .. Len(mixer.colorAnimationConfig) :
       mixer.colorAnimationConfig[i].easingIndex = sinePulse

\* the game fields, the high score apart, as activate sets them
GameFieldsReset ==
  /\ sequence' = <<>>
  /\ userPosition' = 0
  /\ active'
  /\ state' = IDLE
  /\ difficulty' = EASY
  /\ score' = 0
  /\ speedMultiplier' = difficultySettings[EASY].speedMultiplier
  /\ mistakesAllowed' = difficultySettings[EASY].mistakesAllowed
  /\ mistakesMade' = 0

\* C37: in every reachable state the high score is at least the score, no
\* step lowers the high score, and deactivate and activate keep it while
\* activate resets every other game field
C37_HighScoreKept ==
  /\ [](highScore >= score)
  /\ [][highScore' >= highScore]_vars
  /\ [][Deactivate => highScore' = highScore]_vars
  /\ [][Activate => (highScore' = highScore /\ GameFieldsReset)]_vars

\* the mode was activated again after a game of two steps, whose score is
\* still the high score
C37_Witness ==
  /\ active
  /\ state = IDLE
  /\ highScore = 2
  /\ score = 0
  /\ sequence = <<>>
  /\ displayTimer = "pending"

\* the intervals of a mode that are pending
LiveIntervals(a, name) == Len(a[name].timers)

\* C38: while Pulse, Random or Fibonacci is active, after any sequence of
\* turns (speed changes) and presses (freeze and unfreeze) exactly one
\* interval of the mode is pending; no turn and no press changes the number
\* of pending intervals, a restart cancelling the interval before it
\* creates the next
C38_OneInterval ==
  /\ [](\A name \in IntervalModes :
          anims.active = name => LiveIntervals(anims, name) = 1)
  /\ [][input'.op \in {"turn", "press"} =>
          \A name \in IntervalModes :
            LiveIntervals(anims', name) = LiveIntervals(anims, name)]_vars

\* the Random mode was frozen, given the slowest speed and unfrozen by the
\* press just handled, which started the interval anew at that speed
C38_Witness ==
  /\ anims.active = RANDOM
  /\ input.op = "press"
  /\ ~anims.random.isFrozen
  /\ anims.random.randomSpeed = Ms(1000)
  /\ anims.random.timers = <<Ms(1000)>>

\* C39: Binary puzzle game: each generated target is credited at most
\* once. Between the generation of a target and the generation of the next
\* one the level rises by at most 1 and the score by at most 10 times the
\* level the target was generated at, whatever bit toggles and timer
\* firings occur while the success animation runs.
C39_CreditedOnce ==
  (binary.mode = BINARY_PUZZLE /\ binary.atTarget # NoTarget) =>
    /\ binary.level <= binary.atTarget.level + 1
    /\ binary.score <= binary.atTarget.score + 10 * binary.atTarget.level

\* one step credits a target at most once: the level rises by at most 1
\* and the score by at most 10 times the level
C39_StepCreditsOnce ==
  [][/\ binary'.level <= binary.level + 1
     /\ binary'.score <= binary.score + 10 * binary.level]_vars

====
